---- MODULE Spec2Model ----
(***************************************************************************)
(* Market-data plane of rustybt: the read portal (PolarsDataPortal), the   *)
(* Parquet writer with its metadata catalog, and the cache eviction of the *)
(* `cache clean` command.  Each component has its own specification        *)
(* (SpecPortal, SpecWriter, SpecCatalog, SpecCache) over the shared        *)
(* variables; the variables of the other components stay at their initial  *)
(* values.                                                                 *)
(***************************************************************************)
EXTENDS Integers, Sequences, FiniteSets, TLC

VARIABLES
    current_simulation_time, \* PolarsDataPortal.current_simulation_time (None or an instant)
    daily_reader,            \* table of the daily store, or None (no daily reader)
    minute_reader,           \* table of the minute store, or None (no minute reader)
    last,                    \* the last portal call: arguments and what it did
    data_file,               \* <partition dir>/data.parquet, per resolution and partition
    temp_file,               \* <partition dir>/.data.parquet.tmp.<stamp>, likewise
    w,                       \* the write call in progress: position, arguments, result
    bundle_metadata,         \* catalog table bundle_metadata: a set of rows
    data_quality_metrics,    \* catalog table data_quality_metrics: rows in insertion order
    bundle_symbols,          \* catalog table bundle_symbols: a set of rows
    bundle_cache,            \* catalog table bundle_cache: a set of rows
    clock,                   \* int(time.time())
    cat_last,                \* the last catalog call: method and bundle_name
    ad,                      \* the fetch_ohlcv call of a provider adapter
    cache_files,             \* the cached bundle paths that exist on disk
    cc,                      \* the `cache clean` command in progress
    orders,                  \* OrderManager._orders: order id -> Order
    order_counter,           \* OrderManager._order_counter
    lock,                    \* OrderManager._lock: the task that holds it, or no task
    task,                    \* per task: the manager call in progress and its position
    om_last,                 \* the last manager call that returned, and its result
    created,                 \* the ids create_order has returned, in order of return
    vl,                      \* the validate_ohlcv_relationships call: batch, position, result
    np,                      \* two parses of one provider response: position, inputs, results
    cw,                      \* per concurrent write call: position, temp name, file handle, result
    fs,                      \* the partition directory they share: names, files, clock
    ch,                      \* concurrent add_cache_entry calls: per caller position and time read; latest hit
    br,                      \* CCXTBrokerAdapter: its fields, the connect / disconnect in progress, the last call
    tso                      \* TrailingStopOrder: fields, side of its order, prices seen

portalVars == <<current_simulation_time, daily_reader, minute_reader, last>>

writerVars == <<data_file, temp_file, w>>

catalogVars ==
    <<bundle_metadata, data_quality_metrics, bundle_symbols, bundle_cache, clock, cat_last>>

cacheVars == <<cache_files, cc>>

adapterVars == <<ad>>

orderVars == <<orders, order_counter, lock, task, om_last, created>>

validationVars == <<vl>>

parseVars == <<np>>

concurrentWriteVars == <<cw, fs>>

cacheHitVars == <<ch>>

brokerVars == <<br>>

trailingVars == <<tso>>

vars == <<portalVars, writerVars, catalogVars, cacheVars, adapterVars, orderVars, validationVars, parseVars, concurrentWriteVars, cacheHitVars, brokerVars, trailingVars>>

\* what the actions of one component leave alone
outsidePortal == <<writerVars, catalogVars, cacheVars, adapterVars, orderVars, validationVars, parseVars, concurrentWriteVars, cacheHitVars, brokerVars, trailingVars>>
outsideWriter == <<portalVars, cacheVars, adapterVars, orderVars, validationVars, parseVars, concurrentWriteVars, cacheHitVars, brokerVars, trailingVars>>
outsideCatalog == <<portalVars, writerVars, cacheVars, adapterVars, orderVars, validationVars, parseVars, concurrentWriteVars, cacheHitVars, brokerVars, trailingVars>>
outsideCatalog_ch == <<portalVars, writerVars, cacheVars, adapterVars, orderVars, validationVars, parseVars, concurrentWriteVars, brokerVars, trailingVars>>
outsideCache == <<portalVars, writerVars, adapterVars, orderVars, validationVars, parseVars, concurrentWriteVars, cacheHitVars, brokerVars, trailingVars>>
outsideAdapter == <<portalVars, writerVars, catalogVars, cacheVars, orderVars, validationVars, parseVars, concurrentWriteVars, cacheHitVars, brokerVars, trailingVars>>
outsideOrders == <<portalVars, writerVars, catalogVars, cacheVars, adapterVars, validationVars, parseVars, concurrentWriteVars, cacheHitVars, brokerVars, trailingVars>>
outsideValidation == <<portalVars, writerVars, catalogVars, cacheVars, adapterVars, orderVars, parseVars, concurrentWriteVars, cacheHitVars, brokerVars, trailingVars>>
outsideParse == <<portalVars, writerVars, catalogVars, cacheVars, adapterVars, orderVars, validationVars, concurrentWriteVars, cacheHitVars, brokerVars, trailingVars>>
outsideConcurrentWrite == <<portalVars, writerVars, catalogVars, cacheVars, adapterVars, orderVars, validationVars, parseVars, cacheHitVars, brokerVars, trailingVars>>
outsideCacheHits == <<portalVars, writerVars, catalogVars, cacheVars, adapterVars, orderVars, validationVars, parseVars, concurrentWriteVars, brokerVars, trailingVars>>
outsideBroker == <<portalVars, writerVars, catalogVars, cacheVars, adapterVars, orderVars, validationVars, parseVars, concurrentWriteVars, cacheHitVars, trailingVars>>
outsideTrailing == <<portalVars, writerVars, catalogVars, cacheVars, adapterVars, orderVars, validationVars, parseVars, concurrentWriteVars, cacheHitVars, brokerVars>>

-----------------------------------------------------------------------------
(* Bounds of the model *)

NumDays == 4        \* calendar days 0 .. NumDays-1
TicksPerDay == 2    \* minutes ("ticks") per calendar day
MaxBarCount == 2    \* bar_count ranges over 1 .. MaxBarCount

-----------------------------------------------------------------------------
(* Values *)

None == -1          \* Python None for an optional instant / reader

Days == 0 .. (NumDays - 1)
Ticks == 0 .. (NumDays * TicksPerDay - 1)
Sids == {1, 2}

RangeOf(s) == {s[i] : i \in DOMAIN s}

\* pd.Timestamp.date(): the calendar day an instant lies in
DateOf(ts) == ts \div TicksPerDay

\* the instant at which calendar day d starts (a date compared with an instant)
Midnight(d) == d * TicksPerDay

\* One stored bar.  t is a calendar day in the daily store and an instant in
\* the minute store.  The prices are distinct per (sid, t).
Bar(s, t) ==
    [sid |-> s, t |-> t,
     open |-> 100 * s + 4 * t + 1, high |-> 100 * s + 4 * t + 3,
     low |-> 100 * s + 4 * t, close |-> 100 * s + 4 * t + 2,
     volume |-> 1000 * s + t]

RECURSIVE AscendingSeq(_)
\* the elements of a finite set of integers, ascending
AscendingSeq(S) ==
    IF S = {} THEN <<>>
    ELSE LET m == CHOOSE x \in S : \A y \in S : x <= y
         IN <<m>> \o AscendingSeq(S \ {m})

\* The table of a store that holds, for sid 1 the times T1 and for sid 2 the
\* times T2, in file order (by sid, then by time), as in the test fixture.
StoreTable(T1, T2) ==
    [i \in 1 .. Cardinality(T1) |-> Bar(1, AscendingSeq(T1)[i])]
    \o [i \in 1 .. Cardinality(T2) |-> Bar(2, AscendingSeq(T2)[i])]

\* The shapes a sid's bars take in a store over the times 0 .. hi: every time,
\* only the first, the first and the last (a gap in between), none.
ShapeKinds == {"all", "first", "ends", "none"}

Shape(kind, hi) ==
    CASE kind = "all" -> 0 .. hi
      [] kind = "first" -> {0}
      [] kind = "ends" -> {0, hi}
      [] kind = "none" -> {}

-----------------------------------------------------------------------------
(* Metadata catalog: BundleMetadata and DataCatalog over the same tables *)

NoBundle == "None"      \* bundle_name = None

\* `cache clean` is not running
CleanIdle ==
    [pc |-> "idle", clean_all |-> FALSE, max_size_bytes |-> None, current_size |-> 0,
     entries |-> <<>>, i |-> 0, evicted_count |-> 0, evicted_size |-> 0, before |-> {},
     outcome |-> ""]

\* no fetch_ohlcv call in progress
NoFetch ==
    [pc |-> "idle", adapter |-> "", timeframe |-> "", requests |-> <<>>,
     response |-> [kind |-> "", bars |-> <<>>], outcome |-> "", table |-> <<>>]

Tasks == {"t1", "t2"}

NoTask == "none"        \* asyncio.Lock not held

\* a task that is in no manager call
TaskIdle == [pc |-> "idle", op |-> "", order_id |-> <<>>, status |-> ""]

NoOrderCall == [op |-> "none", order_id |-> <<>>, outcome |-> "", result |-> {}]

\* OrderManager.__init__
OrderManagerNew ==
    /\ orders = <<>>
    /\ order_counter = 0
    /\ lock = NoTask
    /\ task = [t \in Tasks |-> TaskIdle]
    /\ om_last = NoOrderCall
    /\ created = <<>>

\* validate_ohlcv_relationships is not being called
ValidationIdle == vl = [pc |-> "idle", df |-> <<>>, outcome |-> ""]

\* no response is being parsed; the wall clock reads 1
ParseIdle ==
    np = [pc |-> "idle", path |-> "", data |-> <<>>, now |-> 1, first |-> <<>>, second |-> <<>>]

Writers == {"w1", "w2"}

NoName == 0             \* the name is not in the directory

\* no write call has begun; the partition directory is empty
ConcurrentWriteIdle ==
    /\ cw = [wr \in Writers |-> [pc |-> "idle", stamp |-> 0, fd |-> 0, outcome |-> ""]]
    /\ fs = [data |-> NoName, temp |-> <<>>, files |-> <<>>, now |-> 1, renamed |-> <<>>]

Callers == {"c1", "c2"}

\* no add_cache_entry call is in progress
CacheHitsIdle ==
    ch = [call |-> [c \in Callers |-> [pc |-> "idle", current_time |-> 0]], latest |-> 0]

\* CCXTBrokerAdapter.__init__: not connected, no WebSocket adapter, no bar buffer
BrokerNew ==
    br = [pc |-> "idle", _connected |-> FALSE, _ws_adapter |-> FALSE, _bar_buffer |-> FALSE,
          calls |-> 0, ticks |-> 0, last |-> [op |-> "none", outcome |-> ""]]

\* no TrailingStopOrder has been constructed
TrailingIdle ==
    tso = [made |-> FALSE, outcome |-> "", trail_amount |-> None, trail_percent |-> None,
          _highest_price |-> None, _lowest_price |-> None, _stop_price |-> None,
          is_buy |-> FALSE, seen |-> {}]

\* the components added to the model later are at rest
Quiet == OrderManagerNew /\ ValidationIdle /\ ParseIdle /\ ConcurrentWriteIdle /\ CacheHitsIdle /\ BrokerNew /\ TrailingIdle

\* no cache, no `cache clean` command and no adapter call
CacheIdle ==
    /\ cache_files = {}
    /\ cc = CleanIdle
    /\ ad = NoFetch

NoCatalogCall == [op |-> "none", bundle_name |-> NoBundle]

\* the catalog of a new installation
CatalogEmpty ==
    /\ bundle_metadata = {}
    /\ data_quality_metrics = <<>>
    /\ bundle_symbols = {}
    /\ bundle_cache = {}
    /\ clock = 1
    /\ cat_last = NoCatalogCall

\* BundleMetadata.update(bundle_name, **bundle_fields) with no quality field:
\* the bundle_metadata table after the call.  fields: [has |-> BOOLEAN,
\* source_type, fetch_timestamp, checksum].
UpdateBundleRow(table, bundle_name, fields, current_time) ==
    IF \E r \in table : r.bundle_name = bundle_name
    THEN IF fields.has
         THEN {IF r.bundle_name = bundle_name
               THEN [r EXCEPT !.source_type = fields.source_type,
                              !.fetch_timestamp = fields.fetch_timestamp,
                              !.checksum = fields.checksum,
                              !.updated_at = current_time]
               ELSE r : r \in table}
         ELSE table
    ELSE table \cup
         {[bundle_name |-> bundle_name,
           source_type |-> IF fields.has THEN fields.source_type ELSE "unknown",
           fetch_timestamp |-> IF fields.has THEN fields.fetch_timestamp ELSE current_time,
           checksum |-> IF fields.has THEN fields.checksum ELSE 0,
           created_at |-> current_time, updated_at |-> current_time]}

\* the id the table gives the next inserted row
NextSymbolId(table) ==
    IF table = {} THEN 1
    ELSE 1 + (CHOOSE i \in {r.id : r \in table} : \A r \in table : r.id <= i)

AddSymbolRow_keep(table, bundle_name, symbol, asset_type, exchange) ==
    IF \E r \in table : r.bundle_name = bundle_name /\ r.symbol = symbol
    THEN table
    ELSE table \cup {[id |-> NextSymbolId(table), bundle_name |-> bundle_name,
                      symbol |-> symbol, asset_type |-> asset_type, exchange |-> exchange]}

\* BundleMetadata.add_symbol: the bundle_symbols table after the call
AddSymbolRow(table, bundle_name, symbol, asset_type, exchange) ==
    IF \E r \in table : r.bundle_name = bundle_name /\ r.symbol = symbol
    THEN {IF r.bundle_name = bundle_name /\ r.symbol = symbol
          THEN [r EXCEPT !.asset_type = asset_type, !.exchange = exchange]
          ELSE r : r \in table}
    ELSE table \cup {[id |-> NextSymbolId(table), bundle_name |-> bundle_name,
                      symbol |-> symbol, asset_type |-> asset_type, exchange |-> exchange]}

\* BundleMetadata.update with quality fields: the row appended to data_quality_metrics
QualityRow(bundle_name, row_count, validation_timestamp) ==
    [bundle_name |-> bundle_name, row_count |-> row_count,
     validation_timestamp |-> validation_timestamp]

InsertQualityRow_replace(table, row) ==
    Append(SelectSeq(table, LAMBDA r : r.bundle_name # row.bundle_name), row)

\* data_quality_metrics.insert().values(...): the table after the insert
InsertQualityRow(table, row) == Append(table, row)

\* BundleMetadata.add_cache_entry: the bundle_cache table after the call
AddCacheRow(table, cache_key, bundle_name, parquet_path, size_bytes, current_time) ==
    IF \E r \in table : r.cache_key = cache_key
    THEN {IF r.cache_key = cache_key THEN [r EXCEPT !.last_accessed = current_time] ELSE r :
            r \in table}
    ELSE table \cup {[cache_key |-> cache_key, bundle_name |-> bundle_name,
                      bundle_path |-> parquet_path, fetch_timestamp |-> current_time,
                      size_bytes |-> size_bytes, last_accessed |-> current_time]}

\* DELETE FROM table WHERE bundle_name = :bundle_name, on a set and on a sequence of rows
DeleteRowsOf(table, bundle_name) == {r \in table : r.bundle_name # bundle_name}

DeleteSeqRowsOf(table, bundle_name) == SelectSeq(table, LAMBDA r : r.bundle_name # bundle_name)

Bundles == {"b1", "b2"}

MaxQualityRows == 2     \* bound on the rows of data_quality_metrics

\* BundleMetadata.update(bundle_name, source_type=..., checksum=..., [row_count=...])
CatUpdate ==
    \E b \in Bundles, with_quality \in BOOLEAN :
      /\ cat_last = NoCatalogCall
      /\ with_quality => Len(data_quality_metrics) < MaxQualityRows
      /\ bundle_metadata' =
           UpdateBundleRow(bundle_metadata, b,
                           [has |-> TRUE, source_type |-> "csv", fetch_timestamp |-> clock,
                            checksum |-> 0], clock)
      /\ data_quality_metrics' =
           IF with_quality THEN InsertQualityRow(data_quality_metrics, QualityRow(b, 10, clock))
           ELSE data_quality_metrics
      /\ cat_last' = [op |-> "update", bundle_name |-> b]
      /\ UNCHANGED <<bundle_symbols, bundle_cache, clock, outsideCatalog>>

\* BundleMetadata.add_symbol(bundle_name, symbol, asset_type, exchange)
CatAddSymbol ==
    \E b \in Bundles, symbol \in {<<"A", "A", "P", "L">>, <<"E", "S", "H", "2", "5">>} :
      /\ cat_last = NoCatalogCall
      /\ bundle_symbols' = AddSymbolRow(bundle_symbols, b, symbol, "equity", "NYSE")
      /\ cat_last' = [op |-> "add_symbol", bundle_name |-> b]
      /\ UNCHANGED <<bundle_metadata, data_quality_metrics, bundle_cache, clock,
                     outsideCatalog>>

\* BundleMetadata.add_cache_entry(cache_key, bundle_name, parquet_path, size_bytes):
\* one cache key per bundle
CatAddCacheEntry ==
    \E b \in Bundles :
      /\ cat_last = NoCatalogCall
      /\ bundle_cache' = AddCacheRow(bundle_cache, <<"key", b>>, b, <<"path", b>>, 1, clock)
      /\ cat_last' = [op |-> "add_cache_entry", bundle_name |-> b]
      /\ UNCHANGED <<bundle_metadata, data_quality_metrics, bundle_symbols, clock,
                     outsideCatalog>>

\* BundleMetadata.delete(bundle_name): quality rows, cache rows, the bundle row
CatDelete ==
    \E b \in Bundles :
      /\ cat_last = NoCatalogCall
      /\ data_quality_metrics' = DeleteSeqRowsOf(data_quality_metrics, b)
      /\ bundle_cache' = DeleteRowsOf(bundle_cache, b)
      /\ bundle_metadata' = DeleteRowsOf(bundle_metadata, b)
      /\ cat_last' = [op |-> "delete", bundle_name |-> b]
      /\ UNCHANGED <<bundle_symbols, clock, outsideCatalog>>

\* DataCatalog.delete_bundle_metadata(bundle_name): quality rows, the bundle row
CatDeleteBundleMetadata ==
    \E b \in Bundles :
      /\ cat_last = NoCatalogCall
      /\ data_quality_metrics' = DeleteSeqRowsOf(data_quality_metrics, b)
      /\ bundle_metadata' = DeleteRowsOf(bundle_metadata, b)
      /\ cat_last' = [op |-> "delete_bundle_metadata", bundle_name |-> b]
      /\ UNCHANGED <<bundle_symbols, bundle_cache, clock, outsideCatalog>>

\* the caller takes the result of the catalog call
CatReturn ==
    /\ cat_last # NoCatalogCall
    /\ cat_last' = NoCatalogCall
    /\ UNCHANGED <<bundle_metadata, data_quality_metrics, bundle_symbols, bundle_cache, clock,
                   outsideCatalog>>

NextCatalog ==
    \/ CatUpdate \/ CatAddSymbol \/ CatAddCacheEntry \/ CatDelete \/ CatDeleteBundleMetadata
    \/ CatReturn

-----------------------------------------------------------------------------
(* ParquetWriter *)

\* Two dates in different months (daily bars) or two instants on different
\* days (minute bars): each lies in its own partition.
WriteTimes == {0, 1}

Resolutions == {"daily", "minute"}

\* the partition directory of a row: year=/month= of its date for daily bars,
\* year=/month=/day= of its timestamp for minute bars
PartitionOf(row, resolution) == <<resolution, row.t>>

\* the partition directories of one tree, daily_bars/ or minute_bars/
DirsOf(resolution) == {<<resolution, t>> : t \in WriteTimes}

\* a bar that satisfies the OHLCV invariants, and one with high < low
GoodBar(t, s) ==
    [t |-> t, sid |-> s, open |-> 2, high |-> 3, low |-> 1, close |-> 2, volume |-> 5]

BadBar(t, s) ==
    [t |-> t, sid |-> s, open |-> 2, high |-> 1, low |-> 3, close |-> 2, volume |-> 5]

AnyBar(t, s, bad) == IF bad THEN BadBar(t, s) ELSE GoodBar(t, s)

\* the batches handed to the writer: empty, one bar of sid 1, or a good bar of
\* sid 1 at the first time followed by a bar of sid 2 at the same or the other time
Batches ==
    {<<>>}
    \cup {<<AnyBar(t, 1, bad)>> : t \in WriteTimes, bad \in BOOLEAN}
    \cup {<<GoodBar(0, 1), AnyBar(u, 2, bad)>> : u \in WriteTimes, bad \in BOOLEAN}

\* a row breaks an OHLCV relationship the writer looks at
IsInvalidRow(r) ==
    \/ r.high < r.low
    \/ r.high < r.open
    \/ r.high < r.close
    \/ r.low > r.open
    \/ r.low > r.close

\* ParquetWriter._validate_ohlcv
validate_ohlcv(df) ==
    LET violations == Cardinality({i \in DOMAIN df : IsInvalidRow(df[i])})
    IN [violations |-> violations, passed |-> violations = 0]

ChecksumRange == 3

\* hashlib.sha256(file bytes): a function of the content alone
Checksum(rows) ==
    LET code(r) == 1 + 2 * r.t + r.sid + (IF IsInvalidRow(r) THEN 1 ELSE 0)
        RECURSIVE sum(_)
        sum(i) == IF i = 0 THEN 0 ELSE i * code(rows[i]) + sum(i - 1)
    IN sum(Len(rows)) % ChecksumRange

\* symbols as the characters they are spelled with
AAPL == <<"A", "A", "P", "L">>
BTC_USDT == <<"B", "T", "C", "/", "U", "S", "D", "T">>
ESH25 == <<"E", "S", "H", "2", "5">>

Digits == {"0", "1", "2", "3", "4", "5", "6", "7", "8", "9"}

\* ParquetWriter._infer_asset_type
infer_asset_type(symbol) ==
    IF \E i \in DOMAIN symbol : symbol[i] \in {"/", "-"} THEN "crypto"
    ELSE IF Len(symbol) >= 4 /\ symbol[Len(symbol) - 1] \in Digits
            /\ symbol[Len(symbol)] \in Digits THEN "future"
    ELSE "equity"

\* files
NoFile == [exists |-> FALSE, rows |-> <<>>, complete |-> FALSE]
WholeFile(rows) == [exists |-> TRUE, rows |-> rows, complete |-> TRUE]
PartFile(rows) == [exists |-> TRUE, rows |-> rows, complete |-> FALSE]

\* source_metadata and bundle_name of a write call: none, or a bundle with a
\* list of symbols
NoMeta == [given |-> FALSE, bundle_name |-> NoBundle, symbols |-> <<>>]
Metas ==
    {NoMeta} \cup
    {[given |-> TRUE, bundle_name |-> "b1", symbols |-> l] :
        l \in {<<>>, <<AAPL>>, <<BTC_USDT, AAPL>>}}

NoDir == <<"", 0>>

Idle ==
    [pc |-> "idle", df |-> <<>>, resolution |-> "", meta |-> NoMeta, dir |-> NoDir,
     before |-> NoFile, cat_before |-> <<{}, {}>>, i |-> 0, outcome |-> ""]

\* a writer that is not used
WriterIdle ==
    /\ data_file = [d \in DirsOf("daily") |-> NoFile]
    /\ temp_file = [d \in DirsOf("daily") |-> NoFile]
    /\ w = Idle

\* ParquetWriter.__init__ on an empty bundle directory.  A behaviour follows
\* one of the two trees, daily_bars/ or minute_bars/.
WriterNew ==
    /\ \E resolution \in Resolutions :
         /\ data_file = [d \in DirsOf(resolution) |-> NoFile]
         /\ temp_file = [d \in DirsOf(resolution) |-> NoFile]
    /\ w = Idle

CleanupTemp_skip(tf, dir) == tf

\* except-branch of _write_partitioned_parquet: unlink the temp file if it exists
CleanupTemp(tf, dir) == [tf EXCEPT ![dir] = NoFile]

Rename_lost(df, tf, dir) == df

\* temp_file.rename(output_file): the data files afterwards
Rename(df, tf, dir) == [df EXCEPT ![dir] = tf[dir]]

\* the type of the price columns of a table handed to the writer
Schemas == {"decimal(18,8)", "float64"}

DAILY_BARS_SCHEMA == "decimal(18,8)"

\* parquet_schema.validate_schema(df, DAILY_BARS_SCHEMA): the table has the
\* columns and types of the canonical schema; it looks at no value
validate_schema(schema, expected) == schema = expected

Returned(call, outcome) == [call EXCEPT !.pc = "returned", !.outcome = outcome]

\* write_daily_bars / write_minute_bars up to the temp file name: schema
\* validation (column names and types; no OHLCV value is looked at), partition
\* columns, df.row(0), mkdir of the partition directory
WriteStart ==
    \E df \in Batches, resolution \in Resolutions, meta \in Metas, schema \in Schemas :
      /\ w.pc = "idle"
      /\ DirsOf(resolution) = DOMAIN data_file
      /\ resolution = "minute" => meta = NoMeta
      /\ LET call == [Idle EXCEPT !.df = df, !.resolution = resolution, !.meta = meta,
                                  !.cat_before = <<bundle_metadata, bundle_symbols>>]
         IN IF ~validate_schema(schema, DAILY_BARS_SCHEMA)
            THEN w' = Returned(call, "ValueError")
            ELSE IF df = <<>> THEN w' = Returned(call, "IndexError")
            ELSE w' = [call EXCEPT !.pc = "write_table",
                                   !.dir = PartitionOf(df[1], resolution),
                                   !.before = data_file[PartitionOf(df[1], resolution)]]
      /\ UNCHANGED <<data_file, temp_file, catalogVars, outsideWriter>>

\* pq.write_table has created the temp file and written part of it
WriteTableBegin ==
    /\ w.pc = "write_table"
    /\ temp_file' = [temp_file EXCEPT ![w.dir] = PartFile(w.df)]
    /\ w' = [w EXCEPT !.pc = "writing"]
    /\ UNCHANGED <<data_file, catalogVars, outsideWriter>>

\* pq.write_table returns: the temp file is complete
WriteTableEnd ==
    /\ w.pc = "writing"
    /\ temp_file' = [temp_file EXCEPT ![w.dir] = WholeFile(w.df)]
    /\ w' = [w EXCEPT !.pc = "rename"]
    /\ UNCHANGED <<data_file, catalogVars, outsideWriter>>

\* pq.write_table raises, before or after it created the temp file
WriteTableFail ==
    /\ w.pc \in {"write_table", "writing"}
    /\ temp_file' = CleanupTemp(temp_file, w.dir)
    /\ w' = Returned(w, "RuntimeError")
    /\ UNCHANGED <<data_file, catalogVars, outsideWriter>>

\* temp_file.rename(output_file) succeeds
RenameOk ==
    /\ w.pc = "rename"
    /\ data_file' = Rename(data_file, temp_file, w.dir)
    /\ temp_file' = [temp_file EXCEPT ![w.dir] = NoFile]
    /\ w' = IF w.meta.given THEN [w EXCEPT !.pc = "provenance"] ELSE Returned(w, "ok")
    /\ UNCHANGED <<catalogVars, outsideWriter>>

\* temp_file.rename(output_file) raises
RenameFail ==
    /\ w.pc = "rename"
    /\ temp_file' = CleanupTemp(temp_file, w.dir)
    /\ w' = Returned(w, "RuntimeError")
    /\ UNCHANGED <<data_file, catalogVars, outsideWriter>>

\* write_daily_bars: checksum of the written file, BundleMetadata.update with
\* the provenance fields, then _validate_ohlcv, whose result is only logged
WriteProvenance ==
    /\ w.pc = "provenance"
    /\ bundle_metadata' =
         UpdateBundleRow(bundle_metadata, w.meta.bundle_name,
                         [has |-> TRUE, source_type |-> "yfinance", fetch_timestamp |-> clock,
                          checksum |-> Checksum(data_file[w.dir].rows)],
                         clock)
    /\ w' = IF w.meta.symbols = <<>> THEN Returned(w, "ok")
            ELSE [w EXCEPT !.pc = "symbols", !.i = 1]
    /\ UNCHANGED <<data_file, temp_file, data_quality_metrics, bundle_symbols, bundle_cache,
                   clock, cat_last, outsideWriter>>

\* write_daily_bars: BundleMetadata.add_symbol for the next symbol of the list
WriteSymbol ==
    /\ w.pc = "symbols"
    /\ LET symbol == w.meta.symbols[w.i]
       IN bundle_symbols' = AddSymbolRow(bundle_symbols, w.meta.bundle_name, symbol,
                                         infer_asset_type(symbol), "None")
    /\ w' = IF w.i = Len(w.meta.symbols) THEN Returned(w, "ok")
            ELSE [w EXCEPT !.i = w.i + 1]
    /\ UNCHANGED <<data_file, temp_file, bundle_metadata, data_quality_metrics, bundle_cache,
                   clock, cat_last, outsideWriter>>

\* write_daily_bars: reading the written file back or BundleMetadata.update
\* raises (the database is locked, the disk fails); nothing catches it
WriteProvenanceFail ==
    /\ w.pc = "provenance"
    /\ w' = Returned(w, "OperationalError")
    /\ UNCHANGED <<data_file, temp_file, catalogVars, outsideWriter>>

\* write_daily_bars: BundleMetadata.add_symbol raises for the next symbol of
\* the list; nothing catches it
WriteSymbolFail ==
    /\ w.pc = "symbols"
    /\ w' = Returned(w, "OperationalError")
    /\ UNCHANGED <<data_file, temp_file, catalogVars, outsideWriter>>

\* the caller takes the result of the write call
WriterReturn ==
    /\ w.pc = "returned"
    /\ w' = Idle
    /\ UNCHANGED <<data_file, temp_file, catalogVars, outsideWriter>>

NextWriter ==
    \/ WriteStart \/ WriteTableBegin \/ WriteTableEnd \/ WriteTableFail
    \/ RenameOk \/ RenameFail \/ WriteProvenance \/ WriteSymbol
    \/ WriteProvenanceFail \/ WriteSymbolFail \/ WriterReturn

-----------------------------------------------------------------------------
(* PolarsDataPortal *)

valid_fields == {"open", "high", "low", "close", "volume"}

FieldOf(row, field) ==
    CASE field = "open" -> row.open
      [] field = "high" -> row.high
      [] field = "low" -> row.low
      [] field = "close" -> row.close
      [] field = "volume" -> row.volume

IsLookahead_inclusive(now, dt) == now # None /\ dt >= now

IsLookahead_never(now, dt) == FALSE

\* the lookahead check of get_spot_value and get_history_window
IsLookahead(now, dt) == now # None /\ dt > now

\* the reader's range scan: the rows of the asked sids with lo <= t <= hi
load_bars(table, sids, lo, hi) ==
    SelectSeq(table, LAMBDA r : r.sid \in RangeOf(sids) /\ lo <= r.t /\ r.t <= hi)

SetTime_monotonic(now, dt) == IF now # None /\ dt <= now THEN now ELSE dt

\* set_simulation_time: the simulation time after the call
SetTime(now, dt) == dt

\* what a call that raised leaves behind
Raised(kind, consulted) ==
    [outcome |-> kind, consulted |-> consulted, series |-> <<>>, table |-> {}]

\* the reader selected for data_frequency, or absent
ReaderFor(daily, minute, freq) ==
    CASE freq = "daily" -> daily
      [] freq = "minute" -> minute
      [] OTHER -> [present |-> FALSE, table |-> <<>>]

\* the time key of a query instant in a store: the date for daily bars, the
\* instant itself for minute bars
KeyOf(dt, freq) == IF freq = "daily" THEN DateOf(dt) ELSE dt

SpotFilter_upto(df, key) == SelectSeq(df, LAMBDA r : r.t <= key)

\* get_spot_value: filter to the exact date / timestamp
SpotFilter(df, key) == SelectSeq(df, LAMBDA r : r.t = key)

get_spot_value_asof(now, daily, minute, assets, field, dt, freq, io_error) ==
    IF field \notin valid_fields THEN Raised("ValueError", FALSE)
    ELSE IF IsLookahead(now, dt) THEN Raised("LookaheadError", FALSE)
    ELSE IF ~ReaderFor(daily, minute, freq).present THEN Raised("ValueError", FALSE)
    ELSE IF io_error THEN Raised("NoDataAvailableError", TRUE)
    ELSE
      LET reader == ReaderFor(daily, minute, freq).table
          key == KeyOf(dt, freq)
          df == load_bars(reader, assets, 0, key)
          exact == SelectSeq(df, LAMBDA r : \A i \in DOMAIN df :
                                              df[i].sid = r.sid => df[i].t <= r.t)
      IN IF Len(df) = 0 THEN Raised("NoDataAvailableError", TRUE)
         ELSE [outcome |-> "ok", consulted |-> TRUE,
               series |-> [i \in 1 .. Len(exact) |-> FieldOf(exact[i], field)],
               table |-> {[t |-> exact[i].t, sid |-> exact[i].sid,
                           val |-> FieldOf(exact[i], field)] : i \in 1 .. Len(exact)}]

\* get_spot_value(assets, field, dt, data_frequency); io_error: the reader raised
get_spot_value(now, daily, minute, assets, field, dt, freq, io_error) ==
    IF field \notin valid_fields THEN Raised("ValueError", FALSE)
    ELSE IF IsLookahead(now, dt) THEN Raised("LookaheadError", FALSE)
    ELSE IF ~ReaderFor(daily, minute, freq).present THEN Raised("ValueError", FALSE)
    ELSE IF io_error THEN Raised("NoDataAvailableError", TRUE)
    ELSE
      LET reader == ReaderFor(daily, minute, freq).table
          key == KeyOf(dt, freq)
          df == load_bars(reader, assets, key, key)
          exact == SpotFilter(df, key)
      IN IF Len(df) = 0 THEN Raised("NoDataAvailableError", TRUE)
         ELSE IF Len(exact) = 0 THEN Raised("NoDataAvailableError", TRUE)
         ELSE [outcome |-> "ok", consulted |-> TRUE,
               series |-> [i \in 1 .. Len(exact) |-> FieldOf(exact[i], field)],
               table |-> {[t |-> exact[i].t, sid |-> exact[i].sid,
                           val |-> FieldOf(exact[i], field)] : i \in 1 .. Len(exact)}]

HistoryStart_exact(end_dt, bar_count, freq) ==
    IF freq = "daily" THEN DateOf(end_dt - (bar_count - 1) * TicksPerDay)
    ELSE end_dt - (bar_count - 1)

\* get_history_window: the start of the range that is loaded, bar_count * 2
\* days (minutes) before end_dt
HistoryStart(end_dt, bar_count, freq) ==
    IF freq = "daily" THEN DateOf(end_dt - (bar_count * 2) * TicksPerDay)
    ELSE end_dt - bar_count * 2

TailByTime_head(G, k) == {r \in G : Cardinality({q \in G : q.t < r.t}) < k}

\* sort_by(time).tail(bar_count) of one sid's group
TailByTime(G, k) == {r \in G : Cardinality({q \in G : q.t > r.t}) < k}

\* get_history_window(assets, end_dt, bar_count, frequency, field, data_frequency)
get_history_window(now, daily, minute, assets, end_dt, bar_count, field, freq, io_error) ==
    IF field \notin valid_fields THEN Raised("ValueError", FALSE)
    ELSE IF IsLookahead(now, end_dt) THEN Raised("LookaheadError", FALSE)
    ELSE IF ~ReaderFor(daily, minute, freq).present THEN Raised("ValueError", FALSE)
    ELSE IF io_error THEN Raised("NoDataAvailableError", TRUE)
    ELSE
      LET reader == ReaderFor(daily, minute, freq).table
          key == KeyOf(end_dt, freq)
          df == load_bars(reader, assets, HistoryStart(end_dt, bar_count, freq), key)
          upto == SelectSeq(df, LAMBDA r : r.t <= key)
          group(s) == {upto[i] : i \in {j \in 1 .. Len(upto) : upto[j].sid = s}}
          kept == UNION {TailByTime(group(s), bar_count) : s \in Sids}
      IN IF Len(df) = 0 THEN Raised("NoDataAvailableError", TRUE)
         ELSE [outcome |-> "ok", consulted |-> TRUE, series |-> <<>>,
               table |-> {[t |-> r.t, sid |-> r.sid, val |-> FieldOf(r, field)] : r \in kept}]

\* inputs of the portal calls
AssetLists == {<<1>>, <<1, 2>>, <<2, 1>>}
Fields == {"close", "price"}
Frequencies == {"daily", "minute", "hourly"}

Call(op, assets, field, dt, bar_count, freq, now, res) ==
    [op |-> op, assets |-> assets, field |-> field, dt |-> dt, bar_count |-> bar_count,
     freq |-> freq, now |-> now, outcome |-> res.outcome, consulted |-> res.consulted,
     series |-> res.series, table |-> res.table]

NoCall == Call("none", <<>>, "", 0, 0, "", None, Raised("none", FALSE))

\* PolarsDataPortal.__init__: at least one reader is given.  Each sid's bars
\* take one of the shapes, in the daily store over the days and in the minute
\* store over the instants.
PortalInit ==
    /\ \E hasDaily \in BOOLEAN, hasMinute \in BOOLEAN, k1 \in ShapeKinds, k2 \in {"all", "first"} :
         /\ hasDaily \/ hasMinute
         /\ daily_reader =
              [present |-> hasDaily,
               table |-> IF hasDaily
                         THEN StoreTable(Shape(k1, NumDays - 1), Shape(k2, NumDays - 1))
                         ELSE <<>>]
         /\ minute_reader =
              [present |-> hasMinute,
               table |-> IF hasMinute
                         THEN StoreTable(Shape(k1, NumDays * TicksPerDay - 1),
                                         Shape(k2, NumDays * TicksPerDay - 1))
                         ELSE <<>>]
    /\ current_simulation_time \in {None} \cup Ticks
    /\ last = NoCall
    /\ WriterIdle
    /\ CatalogEmpty
    /\ CacheIdle
    /\ Quiet

SetSimulationTime ==
    \E dt \in Ticks :
      /\ current_simulation_time' = SetTime(current_simulation_time, dt)
      /\ last = NoCall
      /\ last' = Call("set_simulation_time", <<>>, "", dt, 0, "", current_simulation_time,
                      Raised("ok", FALSE))
      /\ UNCHANGED <<daily_reader, minute_reader, outsidePortal>>

GetSpotValue ==
    \E assets \in AssetLists, field \in Fields, dt \in Ticks, freq \in Frequencies,
       io_error \in BOOLEAN :
      /\ last = NoCall
      /\ last' = Call("get_spot_value", assets, field, dt, 0, freq, current_simulation_time,
                      get_spot_value(current_simulation_time, daily_reader, minute_reader,
                                     assets, field, dt, freq, io_error))
      /\ UNCHANGED <<current_simulation_time, daily_reader, minute_reader, outsidePortal>>

GetHistoryWindow ==
    \E assets \in AssetLists, field \in Fields, end_dt \in Ticks, freq \in Frequencies,
       bar_count \in 1 .. MaxBarCount, io_error \in BOOLEAN :
      /\ last = NoCall
      /\ last' = Call("get_history_window", assets, field, end_dt, bar_count, freq,
                      current_simulation_time,
                      get_history_window(current_simulation_time, daily_reader, minute_reader,
                                         assets, end_dt, bar_count, field, freq, io_error))
      /\ UNCHANGED <<current_simulation_time, daily_reader, minute_reader, outsidePortal>>

\* the caller takes the result of the call
PortalReturn ==
    /\ last # NoCall
    /\ last' = NoCall
    /\ UNCHANGED <<current_simulation_time, daily_reader, minute_reader, outsidePortal>>

NextPortal == SetSimulationTime \/ GetSpotValue \/ GetHistoryWindow \/ PortalReturn

\* a portal that is not used
PortalIdle ==
    /\ current_simulation_time = None
    /\ daily_reader = [present |-> FALSE, table |-> <<>>]
    /\ minute_reader = [present |-> FALSE, table |-> <<>>]
    /\ last = NoCall

SpecPortal == PortalInit /\ [][NextPortal]_vars

WriterInit == WriterNew /\ CatalogEmpty /\ PortalIdle /\ CacheIdle /\ Quiet

SpecWriter == WriterInit /\ [][NextWriter]_vars

CatalogInit == CatalogEmpty /\ WriterIdle /\ PortalIdle /\ CacheIdle /\ Quiet

SpecCatalog == CatalogInit /\ [][NextCatalog]_vars

-----------------------------------------------------------------------------
(* Quality records: store_quality_metrics, get, get_quality_metrics *)

MaxStamp == 3       \* validation_timestamp ranges over 1..MaxStamp

RowCounts == {10, 20}

\* the answer of a query that found nothing (Python None)
NoResult == [found |-> FALSE]

LatestQualityRows_lastInserted(table, bundle_name) ==
    LET idx == {i \in DOMAIN table : table[i].bundle_name = bundle_name}
    IN  {table[i] : i \in {k \in idx : \A j \in idx : j <= k}}

\* SELECT ... WHERE bundle_name = :bundle_name ORDER BY validation_timestamp
\* DESC LIMIT 1: the rows the statement can return (none when the bundle has no
\* row; any of the rows that share the greatest validation_timestamp)
LatestQualityRows(table, bundle_name) ==
    LET idx == {i \in DOMAIN table : table[i].bundle_name = bundle_name}
    IN  {table[i] : i \in {k \in idx : \A j \in idx :
                             table[j].validation_timestamp <= table[k].validation_timestamp}}

\* DataCatalog.get_quality_metrics(bundle_name): the possible results
DataCatalog_get_quality_metrics(quality, bundle_name) ==
    IF LatestQualityRows(quality, bundle_name) = {}
    THEN {NoResult}
    ELSE {[found |-> TRUE, bundle_name |-> result.bundle_name, has_quality |-> TRUE,
           row_count |-> result.row_count,
           validation_timestamp |-> result.validation_timestamp] :
            result \in LatestQualityRows(quality, bundle_name)}

\* BundleMetadata.get(bundle_name): the possible results, the bundle row merged
\* with the latest quality row
BundleMetadata_get(bundles, quality, bundle_name) ==
    IF ~ \E r \in bundles : r.bundle_name = bundle_name
    THEN {NoResult}
    ELSE LET bundle_row == CHOOSE r \in bundles : r.bundle_name = bundle_name
         IN  IF LatestQualityRows(quality, bundle_name) = {}
             THEN {[found |-> TRUE, bundle_name |-> bundle_row.bundle_name,
                    source_type |-> bundle_row.source_type, has_quality |-> FALSE]}
             ELSE {[found |-> TRUE, bundle_name |-> bundle_row.bundle_name,
                    source_type |-> bundle_row.source_type, has_quality |-> TRUE,
                    row_count |-> quality_row.row_count,
                    validation_timestamp |-> quality_row.validation_timestamp] :
                     quality_row \in LatestQualityRows(quality, bundle_name)}

\* BundleMetadata.get_quality_metrics(bundle_name): the quality fields of get()
BundleMetadata_get_quality_metrics(bundles, quality, bundle_name) ==
    {IF ~metadata.found THEN NoResult
     ELSE IF metadata.has_quality
          THEN [found |-> TRUE, bundle_name |-> metadata.bundle_name, has_quality |-> TRUE,
                row_count |-> metadata.row_count,
                validation_timestamp |-> metadata.validation_timestamp]
          ELSE [found |-> TRUE, bundle_name |-> metadata.bundle_name, has_quality |-> FALSE] :
       metadata \in BundleMetadata_get(bundles, quality, bundle_name)}

\* DataCatalog.store_quality_metrics(metrics) with all required fields
CatStoreQualityMetrics ==
    \E b \in Bundles, row_count \in RowCounts, validation_timestamp \in 1..MaxStamp :
      /\ cat_last = NoCatalogCall
      /\ Len(data_quality_metrics) < MaxQualityRows
      /\ data_quality_metrics' =
           InsertQualityRow(data_quality_metrics, QualityRow(b, row_count, validation_timestamp))
      /\ cat_last' = [op |-> "store_quality_metrics", bundle_name |-> b]
      /\ UNCHANGED <<bundle_metadata, bundle_symbols, bundle_cache, clock, outsideCatalog>>

\* BundleMetadata.update(bundle_name, row_count=..., [validation_timestamp=...]):
\* quality fields only; validation_timestamp defaults to the current time
CatUpdateQuality ==
    \E b \in Bundles, row_count \in RowCounts, validation_timestamp \in (1..MaxStamp) \cup {None} :
      /\ cat_last = NoCatalogCall
      /\ Len(data_quality_metrics) < MaxQualityRows
      /\ bundle_metadata' = UpdateBundleRow(bundle_metadata, b, [has |-> FALSE], clock)
      /\ data_quality_metrics' =
           InsertQualityRow(data_quality_metrics,
                  QualityRow(b, row_count,
                             IF validation_timestamp = None THEN clock
                             ELSE validation_timestamp))
      /\ cat_last' = [op |-> "update", bundle_name |-> b]
      /\ UNCHANGED <<bundle_symbols, bundle_cache, clock, outsideCatalog>>

\* BundleMetadata.get(bundle_name)
CatGet ==
    \E b \in Bundles :
      \E result \in BundleMetadata_get(bundle_metadata, data_quality_metrics, b) :
        /\ cat_last = NoCatalogCall
        /\ cat_last' = [op |-> "get", bundle_name |-> b, result |-> result]
        /\ UNCHANGED <<bundle_metadata, data_quality_metrics, bundle_symbols, bundle_cache,
                       clock, outsideCatalog>>

\* BundleMetadata.get_quality_metrics(bundle_name)
CatGetQualityMetrics ==
    \E b \in Bundles :
      \E result \in BundleMetadata_get_quality_metrics(bundle_metadata,
                                                        data_quality_metrics, b) :
        /\ cat_last = NoCatalogCall
        /\ cat_last' = [op |-> "get_quality_metrics", bundle_name |-> b, result |-> result]
        /\ UNCHANGED <<bundle_metadata, data_quality_metrics, bundle_symbols, bundle_cache,
                       clock, outsideCatalog>>

\* DataCatalog.get_quality_metrics(bundle_name)
CatalogGetQualityMetrics ==
    \E b \in Bundles :
      \E result \in DataCatalog_get_quality_metrics(data_quality_metrics, b) :
        /\ cat_last = NoCatalogCall
        /\ cat_last' = [op |-> "catalog_get_quality_metrics", bundle_name |-> b,
                        result |-> result]
        /\ UNCHANGED <<bundle_metadata, data_quality_metrics, bundle_symbols, bundle_cache,
                       clock, outsideCatalog>>

\* list_bundles(): SELECT DISTINCT bundle columns, quality columns FROM
\* bundle_metadata LEFT OUTER JOIN data_quality_metrics ON bundle_name; the same
\* statement in BundleMetadata and in DataCatalog.  The entries of the result.
list_bundles(bundles, quality) ==
    UNION {IF \E i \in DOMAIN quality : quality[i].bundle_name = row.bundle_name
           THEN {[bundle_name |-> row.bundle_name, source_type |-> row.source_type,
                  fetch_timestamp |-> row.fetch_timestamp,
                  row_count |-> quality[i].row_count] :
                   i \in {k \in DOMAIN quality : quality[k].bundle_name = row.bundle_name}}
           ELSE {[bundle_name |-> row.bundle_name, source_type |-> row.source_type,
                  fetch_timestamp |-> row.fetch_timestamp, row_count |-> None]} :
             row \in bundles}

\* BundleMetadata.list_bundles() / DataCatalog.list_bundles()
CatListBundles ==
    /\ cat_last = NoCatalogCall
    /\ cat_last' = [op |-> "list_bundles", bundle_name |-> NoBundle,
                    result |-> list_bundles(bundle_metadata, data_quality_metrics)]
    /\ UNCHANGED <<bundle_metadata, data_quality_metrics, bundle_symbols, bundle_cache,
                   clock, outsideCatalog>>

NextQuality ==
    \/ CatStoreQualityMetrics \/ CatUpdateQuality
    \/ CatGet \/ CatGetQualityMetrics \/ CatalogGetQualityMetrics
    \/ CatDelete \/ CatDeleteBundleMetadata \/ CatListBundles
    \/ CatReturn

QualityInit == CatalogEmpty /\ WriterIdle /\ PortalIdle /\ CacheIdle /\ Quiet

SpecQuality == QualityInit /\ [][NextQuality]_vars

-----------------------------------------------------------------------------
(* Bundle rows over time: updated_at *)

MaxClock == 3       \* int(time.time()) ranges over 1..MaxClock

StoreMetadataRow_restamp(table, metadata, current_time) ==
    {r \in table : r.bundle_name # metadata.bundle_name} \cup
         {[bundle_name |-> metadata.bundle_name, source_type |-> metadata.source_type,
           fetch_timestamp |-> metadata.fetch_timestamp, checksum |-> metadata.checksum,
           created_at |-> current_time, updated_at |-> current_time]}

\* DataCatalog.store_metadata(metadata): the bundle_metadata table after the call
StoreMetadataRow(table, metadata, current_time) ==
    IF \E r \in table : r.bundle_name = metadata.bundle_name
    THEN {IF r.bundle_name = metadata.bundle_name
          THEN [r EXCEPT !.source_type = metadata.source_type,
                         !.fetch_timestamp = metadata.fetch_timestamp,
                         !.checksum = metadata.checksum,
                         !.updated_at = current_time]
          ELSE r : r \in table}
    ELSE table \cup
         {[bundle_name |-> metadata.bundle_name, source_type |-> metadata.source_type,
           fetch_timestamp |-> metadata.fetch_timestamp, checksum |-> metadata.checksum,
           created_at |-> current_time, updated_at |-> current_time]}

\* time passes between two catalog calls
CatTick ==
    /\ cat_last = NoCatalogCall
    /\ clock < MaxClock
    /\ clock' = clock + 1
    /\ UNCHANGED <<bundle_metadata, data_quality_metrics, bundle_symbols, bundle_cache,
                   cat_last, outsideCatalog>>

\* DataCatalog.store_metadata(metadata) with all required fields
CatStoreMetadata ==
    \E b \in Bundles :
      /\ cat_last = NoCatalogCall
      /\ bundle_metadata' =
           StoreMetadataRow(bundle_metadata,
                            [bundle_name |-> b, source_type |-> "yfinance",
                             fetch_timestamp |-> clock, checksum |-> 0], clock)
      /\ cat_last' = [op |-> "store_metadata", bundle_name |-> b]
      /\ UNCHANGED <<data_quality_metrics, bundle_symbols, bundle_cache, clock,
                     outsideCatalog>>

\* DataCatalog.store_metadata(metadata) with one of the required fields missing:
\* ValueError before the session is opened
CatStoreMetadataMissing ==
    \E b \in Bundles, field \in {"bundle_name", "source_type", "checksum", "fetch_timestamp"} :
      /\ cat_last = NoCatalogCall
      /\ cat_last' = [op |-> "store_metadata", bundle_name |-> b, missing_fields |-> <<field>>,
                      outcome |-> "ValueError"]
      /\ UNCHANGED <<bundle_metadata, data_quality_metrics, bundle_symbols, bundle_cache,
                     clock, outsideCatalog>>

\* BundleMetadata.update(bundle_name, row_count=10): quality fields only
CatUpdateRowCount ==
    \E b \in Bundles :
      /\ cat_last = NoCatalogCall
      /\ Len(data_quality_metrics) < MaxQualityRows
      /\ bundle_metadata' = UpdateBundleRow(bundle_metadata, b, [has |-> FALSE], clock)
      /\ data_quality_metrics' = InsertQualityRow(data_quality_metrics, QualityRow(b, 10, clock))
      /\ cat_last' = [op |-> "update", bundle_name |-> b]
      /\ UNCHANGED <<bundle_symbols, bundle_cache, clock, outsideCatalog>>

NextStamp ==
    \/ CatTick \/ CatStoreMetadata \/ CatStoreMetadataMissing \/ CatUpdate \/ CatUpdateRowCount
    \/ CatReturn

StampInit == CatalogEmpty /\ WriterIdle /\ PortalIdle /\ CacheIdle /\ Quiet

SpecStamp == StampInit /\ [][NextStamp]_vars

-----------------------------------------------------------------------------
(* Symbol rows: add_symbol and its return value *)

AssetTypes == {"equity", "crypto"}

Exchanges == {"NYSE", "NASDAQ"}

\* symbol_id: existing.id, or the primary key of the inserted row
SymbolIdOf(table, bundle_name, symbol) ==
    (CHOOSE r \in table : r.bundle_name = bundle_name /\ r.symbol = symbol).id

\* BundleMetadata.add_symbol(bundle_name, symbol, asset_type, exchange) -> symbol_id
CatAddSymbolTyped ==
    \E b \in Bundles, symbol \in {AAPL, ESH25}, asset_type \in AssetTypes,
       exchange \in Exchanges :
      /\ cat_last = NoCatalogCall
      /\ bundle_symbols' = AddSymbolRow(bundle_symbols, b, symbol, asset_type, exchange)
      /\ cat_last' = [op |-> "add_symbol", bundle_name |-> b, symbol |-> symbol,
                      asset_type |-> asset_type, exchange |-> exchange,
                      symbol_id |-> SymbolIdOf(bundle_symbols', b, symbol)]
      /\ UNCHANGED <<bundle_metadata, data_quality_metrics, bundle_cache, clock,
                     outsideCatalog>>

NextSymbols == CatAddSymbolTyped \/ CatReturn

SymbolsInit == CatalogEmpty /\ WriterIdle /\ PortalIdle /\ CacheIdle /\ Quiet

SpecSymbols == SymbolsInit /\ [][NextSymbols]_vars

-----------------------------------------------------------------------------
(* OrderManager: tasks of one event loop calling the manager concurrently *)

MaxOrders == 2      \* create_order is called at most MaxOrders times

SUBMITTED == "submitted"
PENDING == "pending"
FILLED == "filled"
CANCELED == "canceled"
REJECTED == "rejected"

OrderStatus == {SUBMITTED, PENDING, FILLED, CANCELED, REJECTED}

NoReason == "None"      \* reject_reason = None

DefaultReason == "User requested"

DigitChar(d) ==
    CASE d = 0 -> "0" [] d = 1 -> "1" [] d = 2 -> "2" [] d = 3 -> "3" [] d = 4 -> "4"
      [] d = 5 -> "5" [] d = 6 -> "6" [] d = 7 -> "7" [] d = 8 -> "8" [] d = 9 -> "9"

RECURSIVE DecimalOf(_)
\* the decimal digits of a natural number
DecimalOf(n) ==
    IF n < 10 THEN <<DigitChar(n)>> ELSE DecimalOf(n \div 10) \o <<DigitChar(n % 10)>>

RECURSIVE ZeroPad(_, _)
\* format width: zeros on the left up to the width, nothing cut
ZeroPad(digits, width) ==
    IF Len(digits) >= width THEN digits ELSE ZeroPad(<<"0">> \o digits, width)

\* f"order-{self._order_counter:08d}"
OrderId(counter) == <<"order-">> \o ZeroPad(DecimalOf(counter), 8)

\* Order(id=order_id, ..., status=OrderStatus.SUBMITTED)
NewOrder(order_id) == [id |-> order_id, status |-> SUBMITTED, reject_reason |-> NoReason]

LockFree_always(l) == TRUE

\* asyncio.Lock: acquire() returns when no task holds the lock
LockFree(l) == l = NoTask

get_active_orders_submitted(tracked) ==
    {order_id \in DOMAIN tracked : tracked[order_id].status = SUBMITTED}

\* the orders get_active_orders returns (by id)
get_active_orders(tracked) ==
    {order_id \in DOMAIN tracked : tracked[order_id].status \in {SUBMITTED, PENDING}}

\* the orders get_all_orders returns (by id)
get_all_orders(tracked) == DOMAIN tracked

\* get_order_count()
get_order_count(tracked) == Cardinality(DOMAIN tracked)

\* the order ids the tasks pass to update_order_status and cancel_order: the
\* ids of the first two orders, unknown until those are created
TargetIds == {OrderId(1), OrderId(2)}

\* create_order calls begun and not yet through their increment
CreatesWaiting ==
    Cardinality({t \in Tasks : task[t].op = "create_order" /\ task[t].pc \in {"acquire", "locked"}})

\* a task calls create_order(asset, amount)
OmCallCreate ==
    \E t \in Tasks :
      /\ task[t].pc = "idle"
      /\ order_counter + CreatesWaiting < MaxOrders
      /\ task' = [task EXCEPT ![t] = [TaskIdle EXCEPT !.pc = "acquire", !.op = "create_order"]]
      /\ UNCHANGED <<orders, order_counter, lock, om_last, created, outsideOrders>>

\* a task calls update_order_status(order_id, status), cancel_order(order_id),
\* get_active_orders() or get_all_orders()
OmCall ==
    \E t \in Tasks, op \in {"update_order_status", "cancel_order", "get_active_orders",
                            "get_all_orders"},
       order_id \in TargetIds, status \in {PENDING, FILLED, REJECTED} :
      /\ task[t].pc = "idle"
      /\ op # "update_order_status" => status = PENDING
      /\ op \in {"get_active_orders", "get_all_orders"} => order_id = OrderId(1)
      /\ task' = [task EXCEPT ![t] =
                    [pc |-> "acquire", op |-> op,
                     order_id |-> IF op \in {"update_order_status", "cancel_order"}
                                  THEN order_id ELSE <<>>,
                     status |-> IF op = "update_order_status" THEN status ELSE ""]]
      /\ UNCHANGED <<orders, order_counter, lock, om_last, created, outsideOrders>>

\* async with self._lock: the task enters
OmAcquire ==
    \E t \in Tasks :
      /\ task[t].pc = "acquire"
      /\ LockFree(lock)
      /\ lock' = t
      /\ task' = [task EXCEPT ![t].pc = "locked"]
      /\ UNCHANGED <<orders, order_counter, om_last, created, outsideOrders>>

\* create_order: self._order_counter += 1
OmCreateIncrement ==
    \E t \in Tasks :
      /\ task[t].pc = "locked" /\ task[t].op = "create_order"
      /\ order_counter' = order_counter + 1
      /\ task' = [task EXCEPT ![t].pc = "incremented"]
      /\ UNCHANGED <<orders, lock, om_last, created, outsideOrders>>

\* create_order: order_id from the counter, self._orders[order_id] = order,
\* return order
OmCreateStore ==
    \E t \in Tasks :
      /\ task[t].pc = "incremented"
      /\ orders' = (OrderId(order_counter) :> NewOrder(OrderId(order_counter))) @@ orders
      /\ created' = Append(created, OrderId(order_counter))
      /\ om_last' = [op |-> "create_order", order_id |-> OrderId(order_counter),
                     outcome |-> "ok", result |-> {}]
      /\ lock' = NoTask
      /\ task' = [task EXCEPT ![t] = TaskIdle]
      /\ UNCHANGED <<order_counter, outsideOrders>>

\* update_order_status under the lock: KeyError for an unknown id, otherwise
\* order.status = status
OmUpdateOrderStatus ==
    \E t \in Tasks :
      /\ task[t].pc = "locked" /\ task[t].op = "update_order_status"
      /\ IF task[t].order_id \in DOMAIN orders
         THEN /\ orders' = [orders EXCEPT ![task[t].order_id].status = task[t].status]
              /\ om_last' = [op |-> "update_order_status", order_id |-> task[t].order_id,
                             outcome |-> "ok", result |-> {}]
         ELSE /\ orders' = orders
              /\ om_last' = [op |-> "update_order_status", order_id |-> task[t].order_id,
                             outcome |-> "KeyError", result |-> {}]
      /\ lock' = NoTask
      /\ task' = [task EXCEPT ![t] = TaskIdle]
      /\ UNCHANGED <<order_counter, created, outsideOrders>>

cancel_order_any(tracked, order_id, reason) ==
    IF order_id \notin DOMAIN tracked
    THEN [orders |-> tracked, outcome |-> "KeyError"]
    ELSE [orders |-> [tracked EXCEPT ![order_id].status = CANCELED,
                                     ![order_id].reject_reason = reason],
          outcome |-> "ok"]

\* what cancel_order does to the tracked orders, and how it ends
cancel_order(tracked, order_id, reason) ==
    IF order_id \notin DOMAIN tracked
    THEN [orders |-> tracked, outcome |-> "KeyError"]
    ELSE IF tracked[order_id].status \notin {SUBMITTED, PENDING}
         THEN [orders |-> tracked, outcome |-> "ValueError"]
         ELSE [orders |-> [tracked EXCEPT ![order_id].status = CANCELED,
                                          ![order_id].reject_reason = reason],
               outcome |-> "ok"]

\* cancel_order(order_id) under the lock
OmCancelOrder ==
    \E t \in Tasks :
      /\ task[t].pc = "locked" /\ task[t].op = "cancel_order"
      /\ orders' = cancel_order(orders, task[t].order_id, DefaultReason).orders
      /\ om_last' = [op |-> "cancel_order", order_id |-> task[t].order_id,
                     outcome |-> cancel_order(orders, task[t].order_id, DefaultReason).outcome,
                     result |-> {}]
      /\ lock' = NoTask
      /\ task' = [task EXCEPT ![t] = TaskIdle]
      /\ UNCHANGED <<order_counter, created, outsideOrders>>

\* get_active_orders() under the lock
OmGetActiveOrders ==
    \E t \in Tasks :
      /\ task[t].pc = "locked" /\ task[t].op = "get_active_orders"
      /\ om_last' = [op |-> "get_active_orders", order_id |-> <<>>, outcome |-> "ok",
                     result |-> get_active_orders(orders)]
      /\ lock' = NoTask
      /\ task' = [task EXCEPT ![t] = TaskIdle]
      /\ UNCHANGED <<orders, order_counter, created, outsideOrders>>

\* get_all_orders() under the lock
OmGetAllOrders ==
    \E t \in Tasks :
      /\ task[t].pc = "locked" /\ task[t].op = "get_all_orders"
      /\ om_last' = [op |-> "get_all_orders", order_id |-> <<>>, outcome |-> "ok",
                     result |-> get_all_orders(orders)]
      /\ lock' = NoTask
      /\ task' = [task EXCEPT ![t] = TaskIdle]
      /\ UNCHANGED <<orders, order_counter, created, outsideOrders>>

NextOrders ==
    \/ OmCallCreate \/ OmCall \/ OmAcquire
    \/ OmCreateIncrement \/ OmCreateStore
    \/ OmUpdateOrderStatus \/ OmCancelOrder
    \/ OmGetActiveOrders \/ OmGetAllOrders

OrdersInit == CatalogEmpty /\ WriterIdle /\ PortalIdle /\ CacheIdle /\ Quiet

SpecOrders == OrdersInit /\ [][NextOrders]_vars

-----------------------------------------------------------------------------
(* validation.validate_ohlcv_relationships *)

MaxRows == 2        \* a validated batch has 1 .. MaxRows rows

PriceValues == {-1, 1, 2}

VolumeValues == {-1, 0, 5}

OhlcvRows ==
    [open : PriceValues, high : PriceValues, low : PriceValues, close : PriceValues,
     volume : VolumeValues]

\* a row that breaks no rule
SoundRow == [open |-> 1, high |-> 2, low |-> 1, close |-> 2, volume |-> 5]

\* the batches validated: sound rows, with any row in one position
OhlcvBatches ==
    {[i \in 1..n |-> IF i = at THEN row ELSE SoundRow] :
       n \in 1..MaxRows, at \in 1..MaxRows, row \in OhlcvRows}

\* df.filter(predicate) is not empty
AnyRow(df, violating) == \E i \in DOMAIN df : df[i] \in violating

\* validate_ohlcv_relationships(df): True, or the ValidationError of the first
\* check that finds a row
validate_ohlcv_relationships(df) ==
    IF AnyRow(df, {r \in OhlcvRows : r.high < r.low}) THEN "ValidationError"
    ELSE IF AnyRow(df, {r \in OhlcvRows : r.high < r.open}) THEN "ValidationError"
    ELSE IF AnyRow(df, {r \in OhlcvRows : r.high < r.close}) THEN "ValidationError"
    ELSE IF AnyRow(df, {r \in OhlcvRows : r.low > r.open}) THEN "ValidationError"
    ELSE IF AnyRow(df, {r \in OhlcvRows : r.low > r.close}) THEN "ValidationError"
    ELSE IF AnyRow(df, {r \in OhlcvRows : r.open < 0 \/ r.high < 0 \/ r.low < 0 \/ r.close < 0})
         THEN "ValidationError"
    ELSE "True"

\* a caller passes a batch
ValidateCall ==
    \E df \in OhlcvBatches :
      /\ vl.pc = "idle"
      /\ vl' = [pc |-> "called", df |-> df, outcome |-> ""]
      /\ UNCHANGED outsideValidation

\* the function returns True or raises
ValidateReturn ==
    /\ vl.pc = "called"
    /\ vl' = [vl EXCEPT !.pc = "returned", !.outcome = validate_ohlcv_relationships(vl.df)]
    /\ UNCHANGED outsideValidation

\* the same batch is given to ParquetWriter._validate_ohlcv
ValidateWriter ==
    /\ vl.pc = "returned"
    /\ vl' = [pc |-> "compared", df |-> vl.df, outcome |-> vl.outcome,
              writer |-> validate_ohlcv(vl.df)]
    /\ UNCHANGED outsideValidation

\* the caller goes on
ValidateDone ==
    /\ vl.pc \in {"returned", "compared"}
    /\ vl' = [pc |-> "idle", df |-> <<>>, outcome |-> ""]
    /\ UNCHANGED outsideValidation

NextValidation == ValidateCall \/ ValidateReturn \/ ValidateWriter \/ ValidateDone

ValidationInit ==
    CatalogEmpty /\ WriterIdle /\ PortalIdle /\ CacheIdle /\ Quiet

SpecValidation == ValidationInit /\ [][NextValidation]_vars

-----------------------------------------------------------------------------
(* rustybt cache clean *)

\* Sizes are counted in MiB: 1024**2 bytes is 1, 1024**3 bytes is 1024.
MiB == 1
GiB == 1024

MaxEntries == 3         \* bound on the rows of bundle_cache
MaxTargetGB == 5        \* bound on the number in --max-size <n>GB

EntrySizes == {1 * GiB, 2 * GiB, 3 * GiB}
Stamps == {1, 2, 3}

\* a bundle_cache row as add_cache_entry inserts it, later hit at last_accessed
CacheRow(k, size_bytes, last_accessed) ==
    [cache_key |-> <<"key", k>>, bundle_name |-> "b1", bundle_path |-> <<"path", k>>,
     fetch_timestamp |-> 1, size_bytes |-> size_bytes, last_accessed |-> last_accessed]

RECURSIVE SumSizes(_)
SumSizes(table) ==
    IF table = {} THEN 0
    ELSE LET r == CHOOSE x \in table : TRUE IN r.size_bytes + SumSizes(table \ {r})

\* DataCatalog.get_cache_size: the sum of size_bytes over bundle_cache
get_cache_size(table) == SumSizes(table)

\* DataCatalog.get_lru_cache_entries: the rows in ascending last_accessed
\* order; rows with the same last_accessed come in any order
RECURSIVE get_lru_cache_entries(_)
get_lru_cache_entries(table) ==
    IF table = {} THEN {<<>>}
    ELSE LET oldest == {r \in table : \A x \in table : r.last_accessed <= x.last_accessed}
         IN UNION {{<<r>> \o rest : rest \in get_lru_cache_entries(table \ {r})} :
                     r \in oldest}

\* DataCatalog.delete_cache_entry: the bundle_cache table without the row of the key
delete_cache_entry(table, cache_key) == {r \in table : r.cache_key # cache_key}

\* --max-size as typed: a number and a suffix; NoMaxSize when the option is absent
NoMaxSize == [number |-> None, suffix |-> ""]

MaxSizes ==
    {[number |-> n, suffix |-> "GB"] : n \in 0..MaxTargetGB}
    \cup {[number |-> 1536, suffix |-> "MB"], [number |-> 4, suffix |-> "gb"],
          [number |-> 5, suffix |-> "KB"]}

\* str.upper on the suffix
Upper(suffix) ==
    CASE suffix = "gb" -> "GB"
      [] suffix = "mb" -> "MB"
      [] suffix = "kb" -> "KB"
      [] OTHER -> suffix

\* the size parsing of cache_clean: None for a suffix other than GB and MB
parse_max_size(max_size) ==
    IF Upper(max_size.suffix) = "GB" THEN max_size.number * GiB
    ELSE IF Upper(max_size.suffix) = "MB" THEN max_size.number * MiB
    ELSE None

StopEviction_strict(current_size, max_size_bytes) == current_size < max_size_bytes

StopEviction_afterFirst(current_size, max_size_bytes) == TRUE

\* "Stop when under limit"
StopEviction(current_size, max_size_bytes) == current_size <= max_size_bytes

CleanDone(call, outcome) == [call EXCEPT !.pc = "done", !.outcome = outcome]

\* cache_clean up to the first entry of the loop
CleanStart ==
    \E max_size \in MaxSizes \cup {NoMaxSize}, clean_all \in BOOLEAN :
      /\ cc.pc = "idle"
      /\ LET call == [CleanIdle EXCEPT !.clean_all = clean_all, !.before = bundle_cache]
         IN IF clean_all
            THEN \E entries \in get_lru_cache_entries(bundle_cache) :
                   cc' = IF entries = <<>> THEN CleanDone(call, "empty")
                         ELSE [call EXCEPT !.pc = "rmtree", !.entries = entries, !.i = 1]
            ELSE IF max_size # NoMaxSize
            THEN LET max_size_bytes == parse_max_size(max_size)
                     current_size == get_cache_size(bundle_cache)
                     sized == [call EXCEPT !.max_size_bytes = max_size_bytes,
                                           !.current_size = current_size]
                 IN IF max_size_bytes = None THEN cc' = CleanDone(call, "invalid")
                    ELSE IF current_size <= max_size_bytes THEN cc' = CleanDone(sized, "under")
                    ELSE \E entries \in get_lru_cache_entries(bundle_cache) :
                           cc' = IF entries = <<>> THEN CleanDone(sized, "evicted")
                                 ELSE [sized EXCEPT !.pc = "rmtree", !.entries = entries,
                                                    !.i = 1]
            ELSE cc' = CleanDone(call, "usage")
      /\ UNCHANGED <<cache_files, catalogVars, outsideCache>>

\* shutil.rmtree(bundle_path) of the entry, when the path exists
CleanRmtree ==
    /\ cc.pc = "rmtree"
    /\ cache_files' = cache_files \ {cc.entries[cc.i].bundle_path}
    /\ cc' = [cc EXCEPT !.pc = "delete_row"]
    /\ UNCHANGED <<catalogVars, outsideCache>>

\* catalog.delete_cache_entry(cache_key), the counters, and the end of the
\* loop body
CleanDeleteRow ==
    /\ cc.pc = "delete_row"
    /\ bundle_cache' = delete_cache_entry(bundle_cache, cc.entries[cc.i].cache_key)
    /\ LET entry == cc.entries[cc.i]
           counted == [cc EXCEPT !.evicted_count = @ + 1,
                                 !.evicted_size = @ + entry.size_bytes,
                                 !.current_size = IF cc.clean_all THEN @
                                                  ELSE @ - entry.size_bytes]
           stop == \/ cc.i = Len(cc.entries)
                   \/ ~cc.clean_all
                      /\ StopEviction(counted.current_size, cc.max_size_bytes)
       IN cc' = IF stop THEN CleanDone(counted, IF cc.clean_all THEN "removed" ELSE "evicted")
                ELSE [counted EXCEPT !.pc = "rmtree", !.i = @ + 1]
    /\ UNCHANGED <<cache_files, bundle_metadata, data_quality_metrics, bundle_symbols, clock,
                   cat_last, outsideCache>>

\* the command has printed its result and exits
CleanReturn ==
    /\ cc.pc = "done"
    /\ cc' = CleanIdle
    /\ UNCHANGED <<cache_files, catalogVars, outsideCache>>

NextCache == CleanStart \/ CleanRmtree \/ CleanDeleteRow \/ CleanReturn

\* a cache of up to MaxEntries bundles, each with its file tree on disk
CachePopulated ==
    \E n \in 0..MaxEntries :
      \E size \in [1..n -> EntrySizes], stamp \in [1..n -> Stamps] :
        /\ bundle_cache = {CacheRow(k, size[k], stamp[k]) : k \in 1..n}
        /\ cache_files = {<<"path", k>> : k \in 1..n}

CacheInit ==
    /\ CachePopulated
    /\ cc = CleanIdle
    /\ ad = NoFetch
    /\ bundle_metadata = {}
    /\ data_quality_metrics = <<>>
    /\ bundle_symbols = {}
    /\ clock = 1
    /\ cat_last = NoCatalogCall
    /\ WriterIdle
    /\ PortalIdle
    /\ Quiet

SpecCache == CacheInit /\ [][NextCache]_vars

\* the loop of cache_clean is sequential code: each of its steps is taken
FairSpecCache == SpecCache /\ WF_vars(CleanRmtree) /\ WF_vars(CleanDeleteRow)

-----------------------------------------------------------------------------
(* Provider adapters: AlpacaAdapter, PolygonAdapter, AlphaVantageAdapter *)

MaxBars == 3            \* bound on the bars of one provider response

Adapters == {"alpaca", "polygon", "alphavantage"}

\* AlpacaAdapter.TIMEFRAME_MAP
AlpacaTimeframeMap ==
    [tf \in {"1m", "5m", "15m", "30m", "1h", "1d"} |->
       CASE tf = "1m" -> "1Min" [] tf = "5m" -> "5Min" [] tf = "15m" -> "15Min"
         [] tf = "30m" -> "30Min" [] tf = "1h" -> "1Hour" [] tf = "1d" -> "1Day"]

\* PolygonAdapter.TIMEFRAME_MAP
PolygonTimeframeMap ==
    [tf \in {"1m", "5m", "15m", "30m", "1h", "4h", "1d", "1w", "1M"} |->
       CASE tf = "1m" -> <<"1", "minute">> [] tf = "5m" -> <<"5", "minute">>
         [] tf = "15m" -> <<"15", "minute">> [] tf = "30m" -> <<"30", "minute">>
         [] tf = "1h" -> <<"1", "hour">> [] tf = "4h" -> <<"4", "hour">>
         [] tf = "1d" -> <<"1", "day">> [] tf = "1w" -> <<"1", "week">>
         [] tf = "1M" -> <<"1", "month">>]

\* AlphaVantageAdapter.INTRADAY_INTERVALS
INTRADAY_INTERVALS ==
    [tf \in {"1m", "5m", "15m", "30m", "1h"} |->
       CASE tf = "1m" -> "1min" [] tf = "5m" -> "5min" [] tf = "15m" -> "15min"
         [] tf = "30m" -> "30min" [] tf = "1h" -> "60min"]

\* AlphaVantageAdapter._get_function_name for asset_type 'stocks'
get_function_name(timeframe) ==
    IF timeframe \in DOMAIN INTRADAY_INTERVALS THEN "TIME_SERIES_INTRADAY"
    ELSE "TIME_SERIES_DAILY"

\* the timeframes asked of fetch_ohlcv: in every map, in Polygon's map only, in no map
Timeframes == {"1d", "1h", "4h", "2h"}

\* the requested window start_date .. end_date, within the instants a
\* provider answers with
BarTimes == {0, 1, 2}
Window == [start_date |-> 1, end_date |-> 2]

\* one bar of a provider response, satisfying the OHLCV relations or not
ProviderBar(t, bad) ==
    IF bad THEN [t |-> t, o |-> 2, h |-> 1, l |-> 3, c |-> 2, v |-> 5]
    ELSE [t |-> t, o |-> 2, h |-> 3, l |-> 1, c |-> 2, v |-> 5]

ProviderBars == {ProviderBar(t, bad) : t \in BarTimes, bad \in BOOLEAN}

BarLists == UNION {[1..n -> ProviderBars] : n \in 0..MaxBars}

\* The JSON a provider answers with: a list of bars in the provider's order,
\* an error for an unknown symbol, another error, or a rate-limit note.  The
\* time series of Alpha Vantage is an object keyed by timestamp: its keys are
\* distinct.
Responses(adapter) ==
    {[kind |-> k, bars |-> <<>>] : k \in {"not_found", "error", "note"}}
    \cup {[kind |-> "bars", bars |-> b] :
            b \in {l \in BarLists :
                     adapter = "alphavantage" =>
                       \A i, j \in DOMAIN l : i # j => l[i].t # l[j].t}}

\* the row of the table built from one bar of the response
RowOf(bar) ==
    [timestamp |-> bar.t, open |-> bar.o, high |-> bar.h, low |-> bar.l, close |-> bar.c,
     volume |-> bar.v]

RECURSIVE InsertByTimestamp(_, _)
\* a row put into a sorted table after the rows that are not later than it
InsertByTimestamp(sorted, row) ==
    IF sorted = <<>> THEN <<row>>
    ELSE IF sorted[Len(sorted)].timestamp <= row.timestamp THEN Append(sorted, row)
    ELSE Append(InsertByTimestamp(SubSeq(sorted, 1, Len(sorted) - 1), row),
                sorted[Len(sorted)])

RECURSIVE SortByTimestamp(_)
\* df.sort("timestamp")
SortByTimestamp(df) ==
    IF df = <<>> THEN <<>>
    ELSE InsertByTimestamp(SortByTimestamp(SubSeq(df, 1, Len(df) - 1)), df[Len(df)])

\* standardize: timestamp and decimal casts, then the sort by timestamp
standardize(df) == SortByTimestamp(df)

\* Each adapter has a validate method (validate_ohlcv_relationships); no step of
\* fetch_ohlcv calls it.

FetchRaised(kind) == [outcome |-> kind, table |-> <<>>]

FetchOk(df) == [outcome |-> "ok", table |-> df]

NoBars_never(bars) == FALSE

\* `if not bars` / `not data["results"]` / `if not rows`: nothing to build a table from
NoBars(bars) == bars = <<>>

\* AlpacaAdapter.fetch_ohlcv after the request, with _parse_bars_response
ParseAlpaca(data) ==
    IF data.kind # "bars"
    THEN IF data.kind = "not_found" THEN FetchRaised("SymbolNotFoundError")
         ELSE FetchRaised("DataParsingError")
    ELSE IF NoBars(data.bars) THEN FetchRaised("DataParsingError")
    ELSE FetchOk(standardize([i \in DOMAIN data.bars |-> RowOf(data.bars[i])]))

\* PolygonAdapter.fetch_ohlcv after the request (aggregates endpoint), with
\* _parse_aggregates_response; a response without results raises
ParsePolygon(data) ==
    IF data.kind = "not_found" THEN FetchRaised("SymbolNotFoundError")
    ELSE IF data.kind = "error" THEN FetchRaised("DataParsingError")
    ELSE IF NoBars(data.bars) THEN FetchRaised("DataParsingError")
    ELSE FetchOk(standardize([i \in DOMAIN data.bars |-> RowOf(data.bars[i])]))

\* AlphaVantageAdapter.fetch_ohlcv after the request, with
\* _parse_time_series_response: the rows outside the window are skipped
ParseAlphaVantage(data, start_date, end_date) ==
    IF data.kind = "not_found" THEN FetchRaised("SymbolNotFoundError")
    ELSE IF data.kind = "error" THEN FetchRaised("DataParsingError")
    ELSE IF data.kind = "note" THEN FetchRaised("QuotaExceededError")
    ELSE IF NoBars(data.bars) THEN FetchRaised("DataParsingError")
    ELSE LET inside == SelectSeq(data.bars, LAMBDA b : ~(b.t < start_date \/ b.t > end_date))
             rows == [i \in DOMAIN inside |-> RowOf(inside[i])]
         IN IF NoBars(rows) THEN FetchRaised("DataParsingError")
            ELSE FetchOk(standardize(rows))

\* fetch_ohlcv up to the request: the timeframe is looked up (Alpaca, Polygon)
\* or turned into a function name (Alpha Vantage), then _make_request is called
FetchStart ==
    \E adapter \in Adapters, timeframe \in Timeframes :
      /\ ad.pc = "idle"
      /\ LET call == [NoFetch EXCEPT !.adapter = adapter, !.timeframe = timeframe]
             sent(request) == [call EXCEPT !.pc = "requested", !.requests = <<request>>]
             raised == [call EXCEPT !.pc = "returned", !.outcome = "ValueError"]
         IN ad' = CASE adapter = "alpaca" ->
                        IF timeframe \notin DOMAIN AlpacaTimeframeMap THEN raised
                        ELSE sent([timeframe |-> AlpacaTimeframeMap[timeframe]])
                    [] adapter = "polygon" ->
                        IF timeframe \notin DOMAIN PolygonTimeframeMap THEN raised
                        ELSE sent([timeframe |-> PolygonTimeframeMap[timeframe]])
                    [] adapter = "alphavantage" ->
                        sent([timeframe |-> get_function_name(timeframe)])
      /\ UNCHANGED outsideAdapter

\* _make_request returns the provider's answer and fetch_ohlcv parses it
FetchResponse ==
    /\ ad.pc = "requested"
    /\ \E data \in Responses(ad.adapter) :
         LET res == CASE ad.adapter = "alpaca" -> ParseAlpaca(data)
                      [] ad.adapter = "polygon" -> ParsePolygon(data)
                      [] ad.adapter = "alphavantage" ->
                           ParseAlphaVantage(data, Window.start_date, Window.end_date)
         IN ad' = [ad EXCEPT !.pc = "returned", !.response = data,
                             !.outcome = res.outcome, !.table = res.table]
    /\ UNCHANGED outsideAdapter

\* the caller takes the table or the exception
FetchReturn ==
    /\ ad.pc = "returned"
    /\ ad' = NoFetch
    /\ UNCHANGED outsideAdapter

NextAdapter == FetchStart \/ FetchResponse \/ FetchReturn

AdapterInit == CatalogEmpty /\ WriterIdle /\ PortalIdle /\ CacheIdle /\ Quiet

SpecAdapter == AdapterInit /\ [][NextAdapter]_vars

-----------------------------------------------------------------------------
(* Adapter normalization: one response parsed twice *)

\* one option of a Polygon options snapshot: last_quote and volume
OptionQuotes ==
    {[bid |-> 1, ask |-> 3, midpoint |-> 2, volume |-> 5],
     [bid |-> 4, ask |-> 6, midpoint |-> 5, volume |-> 0]}

\* data["results"] of the snapshot endpoint
OptionSnapshots == UNION {[1..n -> OptionQuotes] : n \in 0..MaxBars}

\* the row built from one option: the timestamp is pd.Timestamp.now(tz="UTC")
OptionRowOf(option, now) ==
    [timestamp |-> now, open |-> option.bid, high |-> option.ask, low |-> option.bid,
     close |-> option.midpoint, volume |-> option.volume]

\* PolygonAdapter._parse_options_response(data, symbol, start_date, end_date)
\* when the wall clock reads now
ParsePolygonOptions(results, now) ==
    IF NoBars(results) THEN FetchRaised("DataParsingError")
    ELSE FetchOk(standardize([i \in DOMAIN results |-> OptionRowOf(results[i], now)]))

\* the parse paths: the three bar parsers and the options snapshot parser
ParsePaths == Adapters \cup {"polygon_options"}

\* the responses a path is given
ParseInputs(path) ==
    IF path = "polygon_options" THEN OptionSnapshots ELSE Responses(path)

\* the result of a path on a response when the wall clock reads now
ParseOf(path, data, now) ==
    CASE path = "alpaca" -> ParseAlpaca(data)
      [] path = "polygon" -> ParsePolygon(data)
      [] path = "alphavantage" -> ParseAlphaVantage(data, Window.start_date, Window.end_date)
      [] path = "polygon_options" -> ParsePolygonOptions(data, now)

\* a provider response arrives
ParseBegin ==
    \E path \in ParsePaths :
      \E data \in ParseInputs(path) :
        /\ np.pc = "idle"
        /\ np' = [np EXCEPT !.pc = "first", !.path = path, !.data = data]
        /\ UNCHANGED outsideParse

\* the response is parsed
ParseFirst ==
    /\ np.pc = "first"
    /\ np' = [np EXCEPT !.pc = "second", !.first = ParseOf(np.path, np.data, np.now)]
    /\ UNCHANGED outsideParse

\* time passes
ParseTick ==
    /\ np.now < MaxClock
    /\ np' = [np EXCEPT !.now = np.now + 1]
    /\ UNCHANGED outsideParse

\* the same response is parsed again with the same arguments
ParseSecond ==
    /\ np.pc = "second"
    /\ np' = [np EXCEPT !.pc = "done", !.second = ParseOf(np.path, np.data, np.now)]
    /\ UNCHANGED outsideParse

\* the two tables are dropped
ParseEnd ==
    /\ np.pc = "done"
    /\ np' = [np EXCEPT !.pc = "idle", !.path = "", !.data = <<>>, !.first = <<>>,
                        !.second = <<>>]
    /\ UNCHANGED outsideParse

NextParse == ParseBegin \/ ParseFirst \/ ParseTick \/ ParseSecond \/ ParseEnd

ParseInit == CatalogEmpty /\ WriterIdle /\ PortalIdle /\ CacheIdle /\ Quiet

SpecParse == ParseInit /\ [][NextParse]_vars

-----------------------------------------------------------------------------
(* Two write calls on one partition at the same time *)

\* the Arrow table of a call is written in two parts
Chunk(wr, part) == [by |-> wr, part |-> part]

\* the file a call writes when nothing interferes
CompleteFile(wr) == <<Chunk(wr, 1), Chunk(wr, 2)>>

\* a part written at its offset of an open file
Put(content, offset, chunk) ==
    [i \in DOMAIN content \cup {offset} |-> IF i = offset THEN chunk ELSE content[i]]

\* the names of the directory without one temp name
Unlink(temp, stamp) == [n \in DOMAIN temp \ {stamp} |-> temp[n]]

\* time passes
TwTick ==
    /\ fs.now < MaxClock
    /\ fs' = [fs EXCEPT !.now = fs.now + 1]
    /\ UNCHANGED <<cw, outsideConcurrentWrite>>

\* temp_file = partition_path / f".data.parquet.tmp.{int(datetime.now().timestamp())}"
TwBegin ==
    \E wr \in Writers :
      /\ cw[wr].pc = "idle"
      /\ cw' = [cw EXCEPT ![wr].pc = "open", ![wr].stamp = fs.now]
      /\ UNCHANGED <<fs, outsideConcurrentWrite>>

\* pq.write_table opens temp_file for writing: a new file, or the file of that
\* name emptied
TwOpen ==
    \E wr \in Writers :
      /\ cw[wr].pc = "open"
      /\ IF cw[wr].stamp \in DOMAIN fs.temp
         THEN /\ fs' = [fs EXCEPT !.files[fs.temp[cw[wr].stamp]] = <<>>]
              /\ cw' = [cw EXCEPT ![wr].pc = "write1", ![wr].fd = fs.temp[cw[wr].stamp]]
         ELSE /\ fs' = [fs EXCEPT !.files = Append(fs.files, <<>>),
                                  !.temp = (cw[wr].stamp :> (Len(fs.files) + 1)) @@ fs.temp]
              /\ cw' = [cw EXCEPT ![wr].pc = "write1", ![wr].fd = Len(fs.files) + 1]
      /\ UNCHANGED outsideConcurrentWrite

\* pq.write_table writes the first part through its handle
TwWriteFirst ==
    \E wr \in Writers :
      /\ cw[wr].pc = "write1"
      /\ fs' = [fs EXCEPT !.files[cw[wr].fd] = Put(fs.files[cw[wr].fd], 1, Chunk(wr, 1))]
      /\ cw' = [cw EXCEPT ![wr].pc = "write2"]
      /\ UNCHANGED outsideConcurrentWrite

\* pq.write_table writes the rest and closes the file
TwWriteRest ==
    \E wr \in Writers :
      /\ cw[wr].pc = "write2"
      /\ fs' = [fs EXCEPT !.files[cw[wr].fd] = Put(fs.files[cw[wr].fd], 2, Chunk(wr, 2))]
      /\ cw' = [cw EXCEPT ![wr].pc = "rename"]
      /\ UNCHANGED outsideConcurrentWrite

\* temp_file.rename(output_file): the call returns; or the name is gone, the
\* rename raises and the call ends with RuntimeError
TwRename ==
    \E wr \in Writers :
      /\ cw[wr].pc = "rename"
      /\ IF cw[wr].stamp \in DOMAIN fs.temp
         THEN /\ fs' = [fs EXCEPT !.data = fs.temp[cw[wr].stamp],
                                  !.temp = Unlink(fs.temp, cw[wr].stamp),
                                  !.renamed = Append(fs.renamed, wr)]
              /\ cw' = [cw EXCEPT ![wr].pc = "done", ![wr].outcome = "ok"]
         ELSE /\ fs' = fs
              /\ cw' = [cw EXCEPT ![wr].pc = "done", ![wr].outcome = "RuntimeError"]
      /\ UNCHANGED outsideConcurrentWrite

NextConcurrentWrite ==
    TwTick \/ TwBegin \/ TwOpen \/ TwWriteFirst \/ TwWriteRest \/ TwRename

ConcurrentWriteInit == CatalogEmpty /\ WriterIdle /\ PortalIdle /\ CacheIdle /\ Quiet

SpecConcurrentWrite == ConcurrentWriteInit /\ [][NextConcurrentWrite]_vars

-----------------------------------------------------------------------------
(* Concurrent cache hits: add_cache_entry on one cache key *)

HitKey == "k1"

\* add_cache_entry: current_time = int(time.time()), before the session opens
HitReadTime ==
    \E c \in Callers :
      /\ ch.call[c].pc = "idle"
      /\ ch' = [ch EXCEPT !.call[c] = [pc |-> "timed", current_time |-> clock]]
      /\ UNCHANGED <<catalogVars, outsideCatalog_ch>>

\* add_cache_entry: the session selects the entry, updates last_accessed (or
\* inserts the entry) and commits
HitCommit ==
    \E c \in Callers :
      /\ ch.call[c].pc = "timed"
      /\ bundle_cache' =
           AddCacheRow(bundle_cache, HitKey, "b1", "path", 1, ch.call[c].current_time)
      /\ ch' = [call |-> [ch.call EXCEPT ![c] = [pc |-> "idle", current_time |-> 0]],
                latest |-> IF ch.call[c].current_time > ch.latest
                           THEN ch.call[c].current_time ELSE ch.latest]
      /\ UNCHANGED <<bundle_metadata, data_quality_metrics, bundle_symbols, clock, cat_last,
                     outsideCatalog_ch>>

NextCacheHits == CatTick \/ HitReadTime \/ HitCommit

CacheHitsInit == CatalogEmpty /\ WriterIdle /\ PortalIdle /\ CacheIdle /\ Quiet

SpecCacheHits == CacheHitsInit /\ [][NextCacheHits]_vars

-----------------------------------------------------------------------------
(* CCXTBrokerAdapter: connect, disconnect, the calls, order ids *)

MaxCalls == 4       \* bound on the exchange calls issued
MaxTicks == 2       \* bound on the ticks added to the bar buffer

\* the calls that begin with `if not self._connected: raise CCXTConnectionError`
\* (submit_order and cancel_order have their own actions)
BrokerMethods ==
    {"get_account_info", "get_positions", "get_open_orders", "subscribe_market_data",
     "unsubscribe_market_data", "get_current_price"}

BrokerSymbols == {<<"B", "T", "C">>, <<"B", "/", "U", ":", "U">>}

ExchangeOrderIds == {<<"1">>, <<"2", "3">>}

\* the position of the first ':' of s
FirstColon(s) == CHOOSE i \in 1..Len(s) : s[i] = ":" /\ \A j \in 1..(i - 1) : s[j] # ":"

\* f"{asset.symbol}:{order['id']}"
FormatOrderId(symbol, order_id) == symbol \o <<":">> \o order_id

\* broker_order_id.split(":", 1)
SplitOrderId(broker_order_id) ==
    [symbol |-> SubSeq(broker_order_id, 1, FirstColon(broker_order_id) - 1),
     order_id |-> SubSeq(broker_order_id, FirstColon(broker_order_id) + 1,
                         Len(broker_order_id))]

ConnectionCheck_none(b, op) == "pass"

\* the checks a call makes before it reaches the exchange
ConnectionCheck(b, op) ==
    IF ~b._connected THEN "CCXTConnectionError"
    ELSE IF op \in {"subscribe_market_data", "unsubscribe_market_data"} /\ ~b._ws_adapter
         THEN "CCXTConnectionError"
         ELSE "pass"

\* connect(): returns at once when already connected
BrConnect ==
    /\ br.pc = "idle"
    /\ br' = IF br._connected
             THEN [br EXCEPT !.last = [op |-> "connect", outcome |-> "ok"]]
             ELSE [br EXCEPT !.pc = "load_markets", !.last = [op |-> "connect", outcome |-> ""]]
    /\ UNCHANGED outsideBroker

\* await self.exchange.load_markets(): returns or raises
BrLoadMarkets ==
    \E ok \in BOOLEAN :
      /\ br.pc = "load_markets"
      /\ br.calls < MaxCalls
      /\ br' = IF ok
               THEN [br EXCEPT !.pc = "fetch_balance", !.calls = @ + 1]
               ELSE [br EXCEPT !.pc = "idle", !.calls = @ + 1, !._connected = FALSE,
                               !.last = [op |-> "connect", outcome |-> "CCXTConnectionError"]]
      /\ UNCHANGED outsideBroker

\* balance = await self.exchange.fetch_balance(): a balance, None, or it raises;
\* with a balance the WebSocket adapter and the bar buffer are created
BrFetchBalance ==
    \E ok \in BOOLEAN :
      /\ br.pc = "fetch_balance"
      /\ br.calls < MaxCalls
      /\ br' = IF ok
               THEN [br EXCEPT !.pc = "ws_connect", !.calls = @ + 1,
                               !._ws_adapter = TRUE, !._bar_buffer = TRUE]
               ELSE [br EXCEPT !.pc = "idle", !.calls = @ + 1, !._connected = FALSE,
                               !.last = [op |-> "connect", outcome |-> "CCXTConnectionError"]]
      /\ UNCHANGED outsideBroker

\* await self._ws_adapter.connect(): returns, then self._connected = True; or raises
BrWsConnect ==
    \E ok \in BOOLEAN :
      /\ br.pc = "ws_connect"
      /\ br' = IF ok
               THEN [br EXCEPT !.pc = "idle", !._connected = TRUE,
                               !.last = [op |-> "connect", outcome |-> "ok"]]
               ELSE [br EXCEPT !.pc = "idle", !._connected = FALSE,
                               !.last = [op |-> "connect", outcome |-> "CCXTConnectionError"]]
      /\ UNCHANGED outsideBroker

\* disconnect(): returns at once when not connected
BrDisconnect ==
    /\ br.pc = "idle"
    /\ br' = IF ~br._connected
             THEN [br EXCEPT !.last = [op |-> "disconnect", outcome |-> "ok"]]
             ELSE [br EXCEPT !.pc = IF br._ws_adapter THEN "ws_disconnect" ELSE "close",
                             !._bar_buffer = IF br._ws_adapter THEN @ ELSE FALSE,
                             !.last = [op |-> "disconnect", outcome |-> ""]]
    /\ UNCHANGED outsideBroker

\* await self._ws_adapter.disconnect(): returns, then the adapter and the bar
\* buffer are dropped; or raises
BrWsDisconnect ==
    \E ok \in BOOLEAN :
      /\ br.pc = "ws_disconnect"
      /\ br' = IF ok
               THEN [br EXCEPT !.pc = "close", !._ws_adapter = FALSE, !._bar_buffer = FALSE]
               ELSE [br EXCEPT !.pc = "idle",
                               !.last = [op |-> "disconnect", outcome |-> "Exception"]]
      /\ UNCHANGED outsideBroker

\* await self.exchange.close(): returns, then self._connected = False; or raises
BrClose ==
    \E ok \in BOOLEAN :
      /\ br.pc = "close"
      /\ br.calls < MaxCalls
      /\ br' = IF ok
               THEN [br EXCEPT !.pc = "idle", !.calls = @ + 1, !._connected = FALSE,
                               !.last = [op |-> "disconnect", outcome |-> "ok"]]
               ELSE [br EXCEPT !.pc = "idle", !.calls = @ + 1,
                               !.last = [op |-> "disconnect", outcome |-> "Exception"]]
      /\ UNCHANGED outsideBroker

\* get_account_info, get_positions, get_open_orders, subscribe_market_data,
\* unsubscribe_market_data, get_current_price: the check, then one call that
\* returns or raises (the subscriptions call the WebSocket adapter, not the exchange)
BrMethod ==
    \E op \in BrokerMethods, ok \in BOOLEAN :
      /\ ConnectionCheck(br, op) = "pass" => br.calls < MaxCalls
      /\ br' = IF ConnectionCheck(br, op) # "pass"
               THEN [br EXCEPT !.last = [op |-> op, outcome |-> ConnectionCheck(br, op)]]
               ELSE [br EXCEPT !.calls = IF op \in {"subscribe_market_data",
                                                     "unsubscribe_market_data"}
                                         THEN @ ELSE @ + 1,
                               !.last = [op |-> op,
                                         outcome |-> IF ok THEN "ok"
                                                     ELSE "CCXTConnectionError"]]
      /\ UNCHANGED outsideBroker

\* submit_order(asset, amount, order_type): the check, ValueError for amount 0,
\* exchange.create_order, the id f"{asset.symbol}:{order['id']}"
BrSubmitOrder ==
    \E symbol \in BrokerSymbols, amount \in {0, 1}, id \in ExchangeOrderIds, ok \in BOOLEAN :
      /\ (ConnectionCheck(br, "submit_order") = "pass" /\ amount # 0) => br.calls < MaxCalls
      /\ br' = IF ConnectionCheck(br, "submit_order") # "pass"
               THEN [br EXCEPT !.last = [op |-> "submit_order",
                                         outcome |-> ConnectionCheck(br, "submit_order")]]
               ELSE IF amount = 0
               THEN [br EXCEPT !.last = [op |-> "submit_order", outcome |-> "ValueError"]]
               ELSE IF ~ok
               THEN [br EXCEPT !.calls = @ + 1,
                               !.last = [op |-> "submit_order", outcome |-> "CCXTExchangeError"]]
               ELSE [br EXCEPT !.calls = @ + 1,
                               !.last = [op |-> "submit_order", outcome |-> "ok",
                                         symbol |-> symbol, id |-> id,
                                         order_id |-> FormatOrderId(symbol, id)]]
      /\ UNCHANGED outsideBroker

\* cancel_order(broker_order_id) with the id submit_order has just returned, or
\* with an id that has no ':': the check, ValueError, the split,
\* exchange.cancel_order(order_id, symbol)
BrCancelOrder ==
    \E broker_order_id \in
         (IF br.last.op = "submit_order" /\ br.last.outcome = "ok"
          THEN {br.last.order_id} ELSE {}) \cup {<<"4", "2">>},
       ok \in BOOLEAN :
      /\ ConnectionCheck(br, "cancel_order") = "pass" => br.calls < MaxCalls
      /\ br' = IF ConnectionCheck(br, "cancel_order") # "pass"
               THEN [br EXCEPT !.last = [op |-> "cancel_order",
                                         outcome |-> ConnectionCheck(br, "cancel_order")]]
               ELSE IF \A i \in 1..Len(broker_order_id) : broker_order_id[i] # ":"
               THEN [br EXCEPT !.last = [op |-> "cancel_order", outcome |-> "ValueError"]]
               ELSE [br EXCEPT !.calls = @ + 1,
                               !.last = [op |-> "cancel_order",
                                         outcome |-> IF ok THEN "ok" ELSE "CCXTOrderRejectError",
                                         submitted |-> [symbol |-> br.last.symbol,
                                                        id |-> br.last.id],
                                         symbol |-> SplitOrderId(broker_order_id).symbol,
                                         id |-> SplitOrderId(broker_order_id).order_id]]
      /\ UNCHANGED outsideBroker

\* _handle_tick(tick), called by the WebSocket adapter: the tick goes into the
\* bar buffer when there is one
BrHandleTick ==
    /\ br._ws_adapter
    /\ br._bar_buffer => br.ticks < MaxTicks
    /\ br' = IF br._bar_buffer
             THEN [br EXCEPT !.ticks = @ + 1,
                             !.last = [op |-> "_handle_tick", outcome |-> "added",
                                       connected |-> br._connected]]
             ELSE [br EXCEPT !.last = [op |-> "_handle_tick", outcome |-> "dropped",
                                       connected |-> br._connected]]
    /\ UNCHANGED outsideBroker

NextBroker ==
    \/ BrConnect \/ BrLoadMarkets \/ BrFetchBalance \/ BrWsConnect
    \/ BrDisconnect \/ BrWsDisconnect \/ BrClose
    \/ BrMethod \/ BrSubmitOrder \/ BrCancelOrder \/ BrHandleTick

BrokerInit == CatalogEmpty /\ WriterIdle /\ PortalIdle /\ CacheIdle /\ Quiet

SpecBroker == BrokerInit /\ [][NextBroker]_vars

-----------------------------------------------------------------------------
(* TrailingStopOrder.  Prices are whole numbers, trail_percent is counted in *)
(* hundredths (50 is 0.5) and _stop_price in hundredths of a price unit.     *)

MaxPrice == 4       \* current_price ranges over 1..MaxPrice

TrailAmounts == {None, 0, 1, 2}

TrailPercents == {None, 0, 10, 50, 100}

update_trailing_stop_follow(style, current_price, is_buy) ==
    [style EXCEPT
       !._lowest_price = IF is_buy THEN current_price ELSE @,
       !._highest_price = IF is_buy THEN @ ELSE current_price,
       !._stop_price =
          IF is_buy
          THEN IF style.trail_amount # None
               THEN 100 * current_price + 100 * style.trail_amount
               ELSE current_price * (100 + style.trail_percent)
          ELSE IF style.trail_amount # None
               THEN 100 * current_price - 100 * style.trail_amount
               ELSE current_price * (100 - style.trail_percent)]

\* TrailingStopOrder.update_trailing_stop(current_price, is_buy): the fields
\* after the call; the call returns _stop_price
update_trailing_stop(style, current_price, is_buy) ==
    LET lowest == IF is_buy /\ (style._lowest_price = None \/
                                current_price < style._lowest_price)
                  THEN current_price ELSE style._lowest_price
        highest == IF ~is_buy /\ (style._highest_price = None \/
                                  current_price > style._highest_price)
                   THEN current_price ELSE style._highest_price
    IN [style EXCEPT
          !._lowest_price = lowest,
          !._highest_price = highest,
          !._stop_price =
             IF is_buy
             THEN IF style.trail_amount # None
                  THEN 100 * lowest + 100 * style.trail_amount
                  ELSE lowest * (100 + style.trail_percent)
             ELSE IF style.trail_amount # None
                  THEN 100 * highest - 100 * style.trail_amount
                  ELSE highest * (100 - style.trail_percent)]

\* TrailingStopOrder(trail_amount=..., trail_percent=...) for a buy or a sell
\* order: BadOrderParameters unless exactly one trail is given and it is in range
TsNew ==
    \E trail_amount \in TrailAmounts, trail_percent \in TrailPercents, is_buy \in BOOLEAN :
      /\ tso' = IF \/ (trail_amount = None /\ trail_percent = None)
                  \/ (trail_amount # None /\ trail_percent # None)
                  \/ (trail_amount # None /\ trail_amount <= 0)
                  \/ (trail_amount = None /\ (trail_percent <= 0 \/ trail_percent >= 100))
               THEN [made |-> FALSE, outcome |-> "BadOrderParameters", trail_amount |-> None,
                     trail_percent |-> None, _highest_price |-> None,
                     _lowest_price |-> None, _stop_price |-> None, is_buy |-> FALSE,
                     seen |-> {}]
               ELSE [made |-> TRUE, outcome |-> "ok", trail_amount |-> trail_amount,
                     trail_percent |-> trail_percent, _highest_price |-> None,
                     _lowest_price |-> None, _stop_price |-> None, is_buy |-> is_buy,
                     seen |-> {}]
      /\ UNCHANGED outsideTrailing

\* update_trailing_stop(current_price, is_buy) for the order of the style
TsUpdate ==
    \E current_price \in 1..MaxPrice :
      /\ tso.made
      /\ tso' = [update_trailing_stop(tso, current_price, tso.is_buy) EXCEPT
                  !.seen = @ \cup {current_price}]
      /\ UNCHANGED outsideTrailing

NextTrailing == TsNew \/ TsUpdate

TrailingInit == CatalogEmpty /\ WriterIdle /\ PortalIdle /\ CacheIdle /\ Quiet

SpecTrailing == TrailingInit /\ [][NextTrailing]_vars

-----------------------------------------------------------------------------
(* Properties of the portal *)

PortalQueries == {"get_spot_value", "get_history_window"}

\* the instant a returned row stands at: the start of its day for a daily bar
RowInstant(t, freq) == IF freq = "daily" THEN Midnight(t) ELSE t

\* the rows of the store that the last query was put to, as stored
QueriedStore ==
    LET tab == ReaderFor(daily_reader, minute_reader, last.freq).table
    IN {tab[i] : i \in DOMAIN tab}

\* C1: with a simulation time set, a query with a valid field whose query time
\* is strictly after it fails with LookaheadError without consulting the
\* reader, and a query at or before it is never rejected with LookaheadError.
C1_LookaheadGate ==
    (last.op \in PortalQueries /\ last.field \in valid_fields /\ last.now # None) =>
        /\ (last.dt > last.now => last.outcome = "LookaheadError" /\ ~last.consulted)
        /\ (last.dt <= last.now => last.outcome # "LookaheadError")

\* a query one instant after the simulation time, for a bar the store holds, was rejected
C1_Witness ==
    /\ last.op \in PortalQueries /\ last.field \in valid_fields /\ last.now # None
    /\ last.dt = last.now + 1
    /\ last.outcome = "LookaheadError"
    /\ \E r \in QueriedStore : r.t = KeyOf(last.dt, last.freq)

\* C2: every row a successful query returns stands at a time not after the
\* simulation time in force when the query was made.
C2_NoFutureRows ==
    (last.op \in PortalQueries /\ last.outcome = "ok" /\ last.now # None) =>
        \A r \in last.table : RowInstant(r.t, last.freq) <= last.now

\* a successful query returned rows while the store held later rows of the same assets
C2_Witness ==
    /\ last.op \in PortalQueries /\ last.outcome = "ok" /\ last.now # None
    /\ last.table # {}
    /\ \E r \in QueriedStore :
         r.sid \in RangeOf(last.assets) /\ RowInstant(r.t, last.freq) > last.now

\* C3 as stated: set_simulation_time(dt) with dt not strictly later than the
\* current simulation time is rejected and leaves the simulation time unchanged.
C3_Original ==
    (last.op = "set_simulation_time" /\ last.now # None /\ last.dt <= last.now) =>
        current_simulation_time = last.now

\* C3 amended: set_simulation_time(dt) is never rejected and the simulation
\* time is dt afterwards, whether dt is later, equal or earlier than before.
C3_SetAlwaysApplies ==
    last.op = "set_simulation_time" =>
        (last.outcome = "ok" /\ current_simulation_time = last.dt)

\* the simulation time was set to an earlier instant and moved backwards
C3_Witness ==
    /\ last.op = "set_simulation_time" /\ last.now # None
    /\ last.dt < last.now
    /\ current_simulation_time = last.dt

\* the bars of sid s the store holds at or before the key, the k most recent of them
MostRecentStored(s, key, k) ==
    LET upto == {r \in QueriedStore : r.sid = s /\ r.t <= key}
    IN {r \in upto : Cardinality({q \in upto : q.t > r.t}) < k}

\* C10 as stated: a successful get_history_window returns for each requested
\* asset exactly the min(bar_count, n) most recent stored bars at or before
\* end_dt, however far apart they are.
C10_Original ==
    (last.op = "get_history_window" /\ last.outcome = "ok") =>
        \A s \in RangeOf(last.assets) :
            {r.t : r \in {q \in last.table : q.sid = s}}
              = {r.t : r \in MostRecentStored(s, KeyOf(last.dt, last.freq), last.bar_count)}

\* the stored rows of the requested assets at exactly the queried instant
StoredAtInstant ==
    {r \in QueriedStore : r.sid \in RangeOf(last.assets) /\ r.t = KeyOf(last.dt, last.freq)}

\* C11: get_spot_value only returns values of stored rows whose time equals
\* the queried instant (its date, in the daily store); when the store holds no
\* row of the requested assets at that instant the call does not succeed, and
\* once the reader is consulted it fails with NoDataAvailableError.
C11_ExactInstantOrNoData ==
    last.op = "get_spot_value" =>
        /\ last.outcome = "ok" =>
             /\ last.table # {}
             /\ \A r \in last.table :
                  \E q \in StoredAtInstant : q.sid = r.sid /\ FieldOf(q, last.field) = r.val
        /\ StoredAtInstant = {} =>
             /\ last.outcome # "ok"
             /\ last.consulted => last.outcome = "NoDataAvailableError"

\* the reader was consulted for an asset that has bars before the queried
\* instant and none at it, and the call failed with NoDataAvailableError
C11_Witness ==
    /\ last.op = "get_spot_value"
    /\ last.consulted
    /\ StoredAtInstant = {}
    /\ \E r \in QueriedStore :
         r.sid \in RangeOf(last.assets) /\ r.t < KeyOf(last.dt, last.freq)
    /\ last.outcome = "NoDataAvailableError"

\* C12: a successful get_spot_value returns exactly one value per requested
\* asset, the i-th value being the field value of the i-th requested asset at
\* the queried instant; no asset is silently omitted.
C12_Original ==
    (last.op = "get_spot_value" /\ last.outcome = "ok") =>
        /\ Len(last.series) = Len(last.assets)
        /\ \A i \in DOMAIN last.assets :
             \E q \in StoredAtInstant :
               q.sid = last.assets[i] /\ last.series[i] = FieldOf(q, last.field)

-----------------------------------------------------------------------------
(* Properties of the adapters *)

FetchReturnedTable == ad.pc = "returned" /\ ad.outcome = "ok"

\* C13: every table fetch_ohlcv returns is in strictly ascending time order,
\* no two rows sharing a timestamp, also when the provider's response is
\* unordered or repeats a timestamp.
C13_Original ==
    FetchReturnedTable =>
        \A i, j \in DOMAIN ad.table : i < j => ad.table[i].timestamp < ad.table[j].timestamp

\* the provider answered the request with a well-formed response that has no
\* bar in the requested window
ZeroBarsInWindow ==
    /\ ad.pc = "returned"
    /\ ad.response.kind = "bars"
    /\ IF ad.adapter = "alphavantage"
       THEN \A i \in DOMAIN ad.response.bars :
              ad.response.bars[i].t < Window.start_date \/ ad.response.bars[i].t > Window.end_date
       ELSE ad.response.bars = <<>>

TimeframeMapOf(adapter) ==
    CASE adapter = "alpaca" -> DOMAIN AlpacaTimeframeMap
      [] adapter = "polygon" -> DOMAIN PolygonTimeframeMap
      [] adapter = "alphavantage" -> DOMAIN INTRADAY_INTERVALS \cup {"1d"}

\* C15: fetch_ohlcv with a timeframe that is not in the adapter's timeframe
\* map fails with an invalid-request error (ValueError) before any network
\* request is made.
C15_Original ==
    (ad.pc # "idle" /\ ad.timeframe \notin TimeframeMapOf(ad.adapter)) =>
        (ad.pc = "returned" /\ ad.outcome = "ValueError" /\ ad.requests = <<>>)

\* C16: the adapter checks the OHLCV invariants on the normalized rows before
\* fetch_ohlcv returns: no returned table contains a violating row.
C16_Original ==
    FetchReturnedTable =>
        \A i \in DOMAIN ad.table :
          /\ ad.table[i].high >= ad.table[i].low
          /\ ad.table[i].high >= ad.table[i].open
          /\ ad.table[i].high >= ad.table[i].close
          /\ ad.table[i].low <= ad.table[i].open
          /\ ad.table[i].low <= ad.table[i].close

\* C27: adapter normalization is deterministic: the same provider response
\* parsed twice with the same arguments gives identical rows, on every parse
\* path, the Polygon options snapshot path included.
C27_Original == (np.pc = "done") => np.first = np.second

-----------------------------------------------------------------------------
(* Properties of the writer *)

\* the write call has returned and its batch has a row that breaks an OHLCV invariant
ReturnedViolatingBatch == w.pc = "returned" /\ validate_ohlcv(w.df).violations > 0

\* C4: a write call whose batch contains a row violating an OHLCV invariant is
\* rejected as a whole: the call does not succeed, the data file of the target
\* partition is what it was before the call, and no bundle row or symbol row
\* has been added or updated.
C4_Original ==
    ReturnedViolatingBatch =>
      /\ w.outcome # "ok"
      /\ w.dir # NoDir => data_file[w.dir] = w.before
      /\ <<bundle_metadata, bundle_symbols>> = w.cat_before

\* C5: the writer is atomic.  At every point during and after a write call the
\* data file of the partition does not exist, is the previous complete file or
\* is the complete content of the finished write, never a partial file; when
\* the write or the rename fails the temp file is removed and the data file is
\* left as it was.
C5_AtomicWrite ==
    /\ \A d \in DOMAIN data_file : data_file[d].exists => data_file[d].complete
    /\ w.dir # NoDir => data_file[w.dir] \in {w.before, WholeFile(w.df)}
    /\ w.pc = "returned" /\ w.outcome = "RuntimeError" =>
         /\ temp_file[w.dir] = NoFile
         /\ data_file[w.dir] = w.before

\* a write over an existing file of another content has failed after the temp
\* file was created
C5_Witness ==
    /\ w.pc = "returned"
    /\ w.outcome = "RuntimeError"
    /\ w.before.exists
    /\ w.before.rows # w.df
    /\ data_file[w.dir] = w.before

\* C17: partition keys are derived from each row's time: every row stored in
\* a partition's data file has the year/month (and day) of that partition's
\* directory, also when the written batch spans several months or days.
C17_Original ==
    \A d \in DOMAIN data_file :
      data_file[d].exists =>
        \A i \in DOMAIN data_file[d].rows : PartitionOf(data_file[d].rows[i], d[1]) = d

\* a write call with source metadata and a bundle name has returned normally
ReturnedWithProvenance == w.pc = "returned" /\ w.outcome = "ok" /\ w.meta.given

\* C18: after a successful write_daily_bars with source metadata and a bundle
\* name, the catalog holds a quality record of that bundle whose row_count is
\* the number of rows of the written file.
C18_Original ==
    ReturnedWithProvenance =>
        \E i \in DOMAIN data_quality_metrics :
          /\ data_quality_metrics[i].bundle_name = w.meta.bundle_name
          /\ data_quality_metrics[i].row_count = Len(data_file[w.dir].rows)

\* the write call in progress has changed the bundle row or the symbol rows
CatalogChangedByWrite ==
    w.pc # "idle" /\ <<bundle_metadata, bundle_symbols>> # w.cat_before

\* C19: in every execution of a write call the catalog update of the bundle
\* (provenance, symbols) is visible only after the data file has been renamed
\* into place: there is no state in which the catalog shows the write while
\* the data file of the write is not there.
C19_CatalogAfterRename ==
    CatalogChangedByWrite =>
        /\ w.dir # NoDir
        /\ data_file[w.dir] = WholeFile(w.df)
        /\ temp_file[w.dir] = NoFile

\* the first write into a partition has registered its bundle while its
\* symbols are still being added
C19_Witness ==
    /\ CatalogChangedByWrite
    /\ w.pc = "symbols"
    /\ ~w.before.exists
    /\ \E r \in bundle_metadata : r.bundle_name = w.meta.bundle_name
    /\ data_file[w.dir] = WholeFile(w.df)

\* C28: two concurrent write calls on one partition serialize on the rename:
\* under every interleaving the data file is never partial nor being written,
\* both calls complete without error, and the data file finally holds the
\* complete content of the call that renamed last.
C28_Original ==
    /\ fs.data # NoName => \E wr \in Writers : fs.files[fs.data] = CompleteFile(wr)
    /\ (\A wr \in Writers : cw[wr].pc = "done") =>
         /\ \A wr \in Writers : cw[wr].outcome = "ok"
         /\ fs.files[fs.data] = CompleteFile(fs.renamed[Len(fs.renamed)])

\* C29: a write-and-catalog call is all-or-nothing: when a step of
\* write_daily_bars fails before its catalog updates are complete (after the
\* rename, during the provenance update or during a symbol upsert), the file
\* it wrote is removed and no catalog row stays added or updated by the call.
C29_Original ==
    (w.pc = "returned" /\ w.outcome # "ok") =>
        /\ <<bundle_metadata, bundle_symbols>> = w.cat_before
        /\ w.dir # NoDir =>
             /\ data_file[w.dir] \in {w.before, NoFile}
             /\ temp_file[w.dir] = NoFile

-----------------------------------------------------------------------------
(* Properties of the catalog *)

\* C6: after a bundle delete (BundleMetadata.delete or
\* DataCatalog.delete_bundle_metadata) the catalog holds no quality row, no
\* symbol row and no cache row of the deleted bundle.
C6_Original ==
    cat_last.op \in {"delete", "delete_bundle_metadata"} =>
      /\ \A i \in DOMAIN data_quality_metrics :
           data_quality_metrics[i].bundle_name # cat_last.bundle_name
      /\ \A r \in bundle_symbols : r.bundle_name # cat_last.bundle_name
      /\ \A r \in bundle_cache : r.bundle_name # cat_last.bundle_name

\* a query of the latest quality record has answered
QualityQueries == {"get", "get_quality_metrics", "catalog_get_quality_metrics"}

\* the quality records of the bundle the last call named
QualityRowsOfLast ==
    {data_quality_metrics[i] :
       i \in {k \in DOMAIN data_quality_metrics :
                data_quality_metrics[k].bundle_name = cat_last.bundle_name}}

\* BundleMetadata.get and get_quality_metrics answer for registered bundles only
RegisteredForLast ==
    cat_last.op \in {"get", "get_quality_metrics"} =>
        \E r \in bundle_metadata : r.bundle_name = cat_last.bundle_name

\* C20: for a bundle with quality records, get / get_quality_metrics (of
\* BundleMetadata and of DataCatalog) return the row_count and the
\* validation_timestamp of a record of that bundle whose validation_timestamp is
\* the greatest, in whatever order the records were inserted.
C20_LatestQualityRecord ==
    (cat_last.op \in QualityQueries /\ QualityRowsOfLast # {} /\ RegisteredForLast) =>
        /\ cat_last.result.found
        /\ cat_last.result.has_quality
        /\ \E q \in QualityRowsOfLast :
             /\ q.row_count = cat_last.result.row_count
             /\ q.validation_timestamp = cat_last.result.validation_timestamp
             /\ \A p \in QualityRowsOfLast :
                  p.validation_timestamp <= q.validation_timestamp

\* the bundle has two records, the one with the greater validation_timestamp
\* inserted first, and the query answered with the first
C20_Witness ==
    /\ cat_last.op \in QualityQueries
    /\ RegisteredForLast
    /\ \E i, j \in DOMAIN data_quality_metrics :
         /\ i < j
         /\ data_quality_metrics[i].bundle_name = cat_last.bundle_name
         /\ data_quality_metrics[j].bundle_name = cat_last.bundle_name
         /\ data_quality_metrics[i].validation_timestamp >
              data_quality_metrics[j].validation_timestamp
         /\ data_quality_metrics[i].row_count # data_quality_metrics[j].row_count
         /\ cat_last.result.found
         /\ cat_last.result.row_count = data_quality_metrics[i].row_count

\* C21: every committed write operation on a bundle (BundleMetadata.update
\* with any set of fields, quality-only fields included, and
\* DataCatalog.store_metadata) leaves the bundle's updated_at at the time of
\* the operation.
C21_Original ==
    (cat_last.op \in {"update", "store_metadata"} /\ "outcome" \notin DOMAIN cat_last) =>
        \A r \in bundle_metadata :
          r.bundle_name = cat_last.bundle_name => r.updated_at = clock

\* at most one symbol row per (bundle, symbol)
OneRowPerSymbol ==
    \A r1, r2 \in bundle_symbols :
      (r1.bundle_name = r2.bundle_name /\ r1.symbol = r2.symbol) => r1 = r2

\* add_symbol returned the id of the row of its pair, which carries the asset
\* type and the exchange of the call
AddSymbolAnswer ==
    (cat_last.op = "add_symbol") =>
        \E r \in bundle_symbols :
          /\ r.bundle_name = cat_last.bundle_name /\ r.symbol = cat_last.symbol
          /\ r.id = cat_last.symbol_id
          /\ r.asset_type = cat_last.asset_type /\ r.exchange = cat_last.exchange

\* every symbol row keeps its id
SymbolIdsKept ==
    \A r \in bundle_symbols :
      \E r2 \in bundle_symbols' :
        r2.bundle_name = r.bundle_name /\ r2.symbol = r.symbol /\ r2.id = r.id

\* C22: after any sequence of add_symbol calls the catalog holds at most one
\* symbol row per (bundle, symbol); a repeated add_symbol for a pair updates
\* asset type and exchange in place and returns the id the first call returned.
C22_OneRowPerSymbol ==
    /\ [](OneRowPerSymbol /\ AddSymbolAnswer)
    /\ [][SymbolIdsKept]_vars

\* a repeated add_symbol has changed the asset type and the exchange of a row
\* that is not the newest of the table
C22_Witness ==
    /\ cat_last.op = "add_symbol"
    /\ cat_last.asset_type = "crypto" /\ cat_last.exchange = "NASDAQ"
    /\ Cardinality(bundle_symbols) = 3
    /\ cat_last.symbol_id = 1
    /\ \E r \in bundle_symbols :
         r.id = 1 /\ r.asset_type = "crypto" /\ r.exchange = "NASDAQ"

\* last_accessed of a cache entry does not decrease
LastAccessedGrows ==
    \A r \in bundle_cache :
      \A r2 \in bundle_cache' : r2.cache_key = r.cache_key => r2.last_accessed >= r.last_accessed

\* once every call has committed, last_accessed is the time of the latest hit
LatestHitKept ==
    (\A c \in Callers : ch.call[c].pc = "idle") =>
        \A r \in bundle_cache : r.cache_key = HitKey => r.last_accessed = ch.latest

\* C30: concurrent cache hits on one cache_key never lose a last_accessed
\* update: under every interleaving of add_cache_entry calls on an existing
\* key, once all have committed last_accessed is the time of the latest hit,
\* and last_accessed of an entry never decreases.
C30_Original == []LatestHitKept /\ [][LastAccessedGrows]_vars

\* the rows the table held are all still there, in their places
QualityRowsKept ==
    /\ Len(data_quality_metrics') >= Len(data_quality_metrics)
    /\ SubSeq(data_quality_metrics', 1, Len(data_quality_metrics)) = data_quality_metrics

\* C31: quality records are append-only: a store_quality_metrics call and an
\* update call carrying quality fields add exactly one quality row, of the
\* bundle of the call, and leave every existing quality row of every bundle
\* unchanged; only a bundle delete removes quality rows.
C31_QualityAppendOnly ==
    [][((cat_last = NoCatalogCall /\ cat_last'.op \in {"store_quality_metrics", "update"}) =>
          (/\ QualityRowsKept
           /\ Len(data_quality_metrics') = Len(data_quality_metrics) + 1
           /\ data_quality_metrics'[Len(data_quality_metrics')].bundle_name =
                cat_last'.bundle_name))
       /\ (~QualityRowsKept => cat_last'.op \in {"delete", "delete_bundle_metadata"})]_vars

\* an update call has added a second quality row to a bundle that had one
C31_Witness ==
    /\ cat_last.op = "update"
    /\ Len(data_quality_metrics) = 2
    /\ data_quality_metrics[1].bundle_name = cat_last.bundle_name
    /\ data_quality_metrics[2].bundle_name = cat_last.bundle_name
    /\ data_quality_metrics[1] # data_quality_metrics[2]

\* one provenance row per bundle name, created no later than it was updated
OneRowPerBundle ==
    /\ \A r1, r2 \in bundle_metadata : r1.bundle_name = r2.bundle_name => r1 = r2
    /\ \A r \in bundle_metadata : r.created_at <= r.updated_at

\* the row of a bundle stays, with the created_at of its insert
CreatedAtKept ==
    \A r \in bundle_metadata :
      \E r2 \in bundle_metadata' :
        r2.bundle_name = r.bundle_name /\ r2.created_at = r.created_at

\* a call that raised ValueError left the catalog as it was
RaisedUnchanged ==
    (cat_last = NoCatalogCall /\ "outcome" \in DOMAIN cat_last') =>
        /\ cat_last'.outcome = "ValueError"
        /\ UNCHANGED <<bundle_metadata, data_quality_metrics, bundle_symbols, bundle_cache>>

\* C32: after any sequence of store_metadata / update calls the catalog holds
\* exactly one provenance row per bundle_name; a call for an existing bundle
\* updates the row in place and keeps its created_at (created_at <= updated_at
\* always); a store_metadata call missing a required field raises ValueError
\* and changes nothing.
C32_OneRowPerBundle ==
    []OneRowPerBundle /\ [][CreatedAtKept /\ RaisedUnchanged]_vars

\* a store_metadata call has updated a row inserted at an earlier time
C32_Witness ==
    /\ cat_last.op = "store_metadata"
    /\ "outcome" \notin DOMAIN cat_last
    /\ \E r \in bundle_metadata :
         /\ r.bundle_name = cat_last.bundle_name
         /\ r.created_at < r.updated_at
         /\ r.updated_at = clock

\* the row_count of the latest quality record of a bundle (None without one)
LatestRowCounts(b) ==
    IF LatestQualityRows(data_quality_metrics, b) = {} THEN {None}
    ELSE {r.row_count : r \in LatestQualityRows(data_quality_metrics, b)}

\* C33: list_bundles returns exactly one entry per bundle, carrying that
\* bundle's latest quality record, also for a bundle that has several quality
\* records with different values.
C33_Original ==
    cat_last.op = "list_bundles" =>
        \A row \in bundle_metadata :
          /\ Cardinality({e \in cat_last.result : e.bundle_name = row.bundle_name}) = 1
          /\ \A e \in cat_last.result :
               e.bundle_name = row.bundle_name => e.row_count \in LatestRowCounts(row.bundle_name)

-----------------------------------------------------------------------------
(* Properties of cache clean *)

\* the sum of the sizes of the first k entries of a list
RECURSIVE PrefixSize(_, _)
PrefixSize(entries, k) ==
    IF k = 0 THEN 0 ELSE entries[k].size_bytes + PrefixSize(entries, k - 1)

Ascending(entries) ==
    \A i, j \in DOMAIN entries : i < j => entries[i].last_accessed <= entries[j].last_accessed

\* `cache clean --max-size S` has finished with a size it could parse
MaxSizeCleanDone == cc.pc = "done" /\ cc.outcome \in {"under", "evicted"}

\* C7: `cache clean --max-size S` evicts in ascending last_accessed order and
\* stops as soon as the total is <= S: the evicted rows are exactly the
\* shortest least-recently-used prefix whose removal brings the total to <= S,
\* and nothing is evicted when the total is already <= S.
C7_ShortestLruPrefix ==
    MaxSizeCleanDone =>
      LET total == get_cache_size(cc.before)
          evicted == cc.before \ bundle_cache
      IN /\ bundle_cache \subseteq cc.before
         /\ IF total <= cc.max_size_bytes
            THEN evicted = {} /\ cc.evicted_count = 0
            ELSE /\ Ascending(cc.entries)
                 /\ {cc.entries[j] : j \in DOMAIN cc.entries} = cc.before
                 /\ \E k \in 1..Len(cc.entries) :
                      /\ evicted = {cc.entries[j] : j \in 1..k}
                      /\ cc.evicted_count = k
                      /\ total - PrefixSize(cc.entries, k) <= cc.max_size_bytes
                      /\ \A j \in 0..(k - 1) :
                           total - PrefixSize(cc.entries, j) > cc.max_size_bytes

\* sizes 3, 2, 1 GB from old to new and --max-size 4GB: only the 3 GB entry is
\* evicted and 3 GB remain
C7_Witness ==
    /\ MaxSizeCleanDone
    /\ cc.max_size_bytes = 4 * GiB
    /\ Len(cc.entries) = 3
    /\ <<cc.entries[1].size_bytes, cc.entries[2].size_bytes, cc.entries[3].size_bytes>>
         = <<3 * GiB, 2 * GiB, 1 * GiB>>
    /\ cc.entries[1].last_accessed < cc.entries[2].last_accessed
    /\ cc.entries[2].last_accessed < cc.entries[3].last_accessed
    /\ cc.before \ bundle_cache = {cc.entries[1]}
    /\ get_cache_size(bundle_cache) = 3 * GiB

CleanRunning == cc.pc \in {"rmtree", "delete_row"}

LargestEntry(table) ==
    IF table = {} THEN 0
    ELSE (CHOOSE r \in table : \A x \in table : x.size_bytes <= r.size_bytes).size_bytes

C9_Original == \A r \in bundle_cache : r.bundle_path \in cache_files

-----------------------------------------------------------------------------
(* Properties of the order manager *)

\* ids are of the form order-<8 digits>, pairwise distinct, and tracked
CreatedIds ==
    /\ \A i \in DOMAIN created :
         /\ Len(created[i]) = 9
         /\ created[i][1] = "order-"
         /\ \A k \in 2..9 : created[i][k] \in Digits
         /\ created[i] \in DOMAIN orders
         /\ orders[created[i]].id = created[i]
    /\ \A i, j \in DOMAIN created : created[i] = created[j] => i = j
    /\ get_order_count(orders) = Len(created)

\* a create_order that returns leaves its order in status SUBMITTED
CreatedSubmitted ==
    (Len(created') > Len(created)) =>
        orders'[created'[Len(created')]].status = SUBMITTED

\* no order is removed
OrdersKept == DOMAIN orders \subseteq DOMAIN orders'

\* C23: under any interleaving of concurrent create_order calls and other
\* manager operations, every created order has a distinct id of the form
\* order-<8-digit sequence number> and starts in status SUBMITTED,
\* get_order_count is the number of create_order calls completed, and no
\* order is ever removed.
C23_DistinctIdsAllTracked ==
    /\ []CreatedIds
    /\ [][CreatedSubmitted /\ OrdersKept]_vars

\* one create_order call is past its increment, holding the lock, while a
\* second create_order call waits for the lock
C23_Witness ==
    /\ Len(created) = 0
    /\ \E t1, t2 \in Tasks :
         /\ task[t1].pc = "incremented"
         /\ task[t2].op = "create_order" /\ task[t2].pc = "acquire"

\* task t completes the call op in this step
Completes(t, op) ==
    task[t].op = op /\ task[t].pc = "locked" /\ task'[t].pc = "idle"

\* every order but order_id is left as it is
OthersUnchanged(order_id) ==
    /\ DOMAIN orders' = DOMAIN orders
    /\ \A other \in DOMAIN orders : other # order_id => orders'[other] = orders[other]

\* C24: cancel_order succeeds only for an order in status SUBMITTED or PENDING
\* and then sets its status to CANCELED and its reject_reason to the reason
\* given; for an order in another status it raises ValueError and for an
\* unknown id KeyError, and in both cases it changes nothing.
C24_CancelOnlyActive ==
    [][\A t \in Tasks :
         Completes(t, "cancel_order") =>
           /\ om_last'.op = "cancel_order"
           /\ IF task[t].order_id \notin DOMAIN orders
              THEN om_last'.outcome = "KeyError" /\ orders' = orders
              ELSE IF orders[task[t].order_id].status \in {SUBMITTED, PENDING}
                   THEN /\ om_last'.outcome = "ok"
                        /\ orders'[task[t].order_id].status = CANCELED
                        /\ orders'[task[t].order_id].reject_reason = DefaultReason
                        /\ orders'[task[t].order_id].id = task[t].order_id
                        /\ OthersUnchanged(task[t].order_id)
                   ELSE om_last'.outcome = "ValueError" /\ orders' = orders]_vars

\* one order was canceled with the reason, and a cancel_order of a rejected
\* order has raised ValueError
C24_Witness ==
    /\ om_last.op = "cancel_order" /\ om_last.outcome = "ValueError"
    /\ om_last.order_id \in DOMAIN orders
    /\ orders[om_last.order_id].status = REJECTED
    /\ \E order_id \in DOMAIN orders :
         orders[order_id].status = CANCELED /\ orders[order_id].reject_reason = DefaultReason

\* C25: after any sequence of create, status-update and cancel operations,
\* get_active_orders returns exactly the tracked orders in status SUBMITTED or
\* PENDING, and get_all_orders returns every order ever created.
C25_ActiveAndAllOrders ==
    [][\A t \in Tasks :
         /\ Completes(t, "get_active_orders") =>
              /\ om_last'.op = "get_active_orders"
              /\ om_last'.result \subseteq RangeOf(created)
              /\ \A order_id \in RangeOf(created) :
                   order_id \in om_last'.result <=>
                     orders[order_id].status \in {SUBMITTED, PENDING}
         /\ Completes(t, "get_all_orders") =>
              /\ om_last'.op = "get_all_orders"
              /\ om_last'.result = RangeOf(created)]_vars

\* with one order pending and one filled, get_active_orders has returned the
\* pending order only
C25_Witness ==
    /\ om_last.op = "get_active_orders"
    /\ Len(created) = 2
    /\ \E a, b \in DOMAIN orders :
         /\ orders[a].status = PENDING /\ orders[b].status = FILLED
         /\ om_last.result = {a}

-----------------------------------------------------------------------------
(* Properties of the broker adapter *)

\* the step is a call of one of the eight checked methods
BrokerMethodStep ==
    /\ br'.pc = br.pc
    /\ br' # br
    /\ br'.last.op \in BrokerMethods \cup {"submit_order", "cancel_order"}

\* the step changed nothing but the record of the last call
OnlyLastChanged == br' = [br EXCEPT !.last = br'.last]

\* C35: while the adapter is not connected, submit_order, cancel_order,
\* get_account_info, get_positions, get_open_orders, subscribe_market_data,
\* unsubscribe_market_data and get_current_price each fail with
\* CCXTConnectionError without issuing an exchange call; connect on a connected
\* adapter and disconnect on a not-connected adapter change nothing.
C35_NotConnectedFails ==
    [][/\ (BrokerMethodStep /\ ~br._connected) =>
             (br'.last.outcome = "CCXTConnectionError" /\ OnlyLastChanged)
       /\ (br.pc = "idle" /\ br'.last.op = "connect" /\ br._connected) => OnlyLastChanged
       /\ (br.pc = "idle" /\ br'.last.op = "disconnect" /\ ~br._connected) =>
             OnlyLastChanged]_vars

\* after a connect and a disconnect, a call on the adapter has failed
C35_Witness ==
    /\ ~br._connected
    /\ br.pc = "idle"
    /\ br.calls >= 3
    /\ br.last.op = "get_current_price"
    /\ br.last.outcome = "CCXTConnectionError"

\* C36: the WebSocket adapter and the bar buffer exist exactly when the adapter
\* is connected (here: whenever no connect or disconnect is in progress), so
\* after a failed connect or a disconnect neither exists, and no tick is
\* aggregated into a bar while the adapter reports not connected.
C36_Original ==
    /\ br.pc = "idle" =>
         /\ br._ws_adapter <=> br._connected
         /\ br._bar_buffer <=> br._connected
    /\ (br.last.op = "_handle_tick" /\ br.last.outcome = "added") => br.last.connected

\* C37: broker order ids round-trip: the id 'SYMBOL:ORDERID' returned by
\* submit_order, passed to cancel_order, cancels exactly that exchange order id
\* on exactly that symbol, also for symbols that contain ':'.
C37_Original ==
    (br.last.op = "cancel_order" /\ "submitted" \in DOMAIN br.last) =>
        /\ br.last.symbol = br.last.submitted.symbol
        /\ br.last.id = br.last.submitted.id

-----------------------------------------------------------------------------
(* More properties of the order manager *)

\* C34: once an order has reached FILLED, CANCELED or REJECTED, no later
\* update_order_status or cancel_order call changes its status (a fill report
\* after a successful cancel does not turn the order into FILLED).
C34_Original ==
    [][\A id \in DOMAIN orders :
         orders[id].status \in {FILLED, CANCELED, REJECTED} =>
             orders'[id].status = orders[id].status]_vars

-----------------------------------------------------------------------------
(* Properties of the validation *)

\* the five relations of a bar row
RowIsValid(r) ==
    /\ r.high >= (IF r.open >= r.close THEN r.open ELSE r.close)
    /\ r.low <= (IF r.open <= r.close THEN r.open ELSE r.close)
    /\ r.high >= r.low
    /\ r.open >= 0 /\ r.high >= 0 /\ r.low >= 0 /\ r.close >= 0
    /\ r.volume >= 0

\* C26: validate_ohlcv_relationships accepts a batch exactly when every row
\* has high >= max(open, close), low <= min(open, close), high >= low, the
\* four prices >= 0 and volume >= 0; a batch with a row that breaks one of
\* these, a negative volume included, raises ValidationError.
C26_Original ==
    (vl.pc = "returned") =>
        (vl.outcome = "True" <=> \A i \in DOMAIN vl.df : RowIsValid(vl.df[i]))

\* C38: the writer's own OHLCV check agrees with the validation module: for
\* every batch, ParquetWriter._validate_ohlcv reports passed (zero violations)
\* exactly when validate_ohlcv_relationships accepts the batch.
C38_Original ==
    vl.pc = "compared" =>
        ((vl.writer.passed /\ vl.writer.violations = 0) <=> vl.outcome = "True")

-----------------------------------------------------------------------------
(* Properties of the trailing stop *)

\* the trail behind price p, in hundredths
TrailOf(p) ==
    IF tso.trail_amount # None THEN 100 * tso.trail_amount ELSE p * tso.trail_percent

HighestSeen == CHOOSE p \in tso.seen : \A q \in tso.seen : q <= p

LowestSeen == CHOOSE p \in tso.seen : \A q \in tso.seen : p <= q

\* the stop price is the best price seen so far, less (sell) or plus (buy) the trail
StopFollowsBest ==
    (tso.made /\ tso.seen # {}) =>
        IF tso.is_buy
        THEN tso._stop_price = 100 * LowestSeen + TrailOf(LowestSeen)
        ELSE tso._stop_price = 100 * HighestSeen - TrailOf(HighestSeen)

\* an update never moves the stop price against the order
StopRatchets ==
    (tso.made /\ tso'.made /\ tso._stop_price # None /\ tso'._stop_price # None) =>
        IF tso.is_buy THEN tso'._stop_price <= tso._stop_price
        ELSE tso'._stop_price >= tso._stop_price

\* C39: a trailing stop only ratchets in the favourable direction: over any
\* sequence of update_trailing_stop calls for a sell order the stop price is
\* the highest price seen so far minus the trail (amount, or that price times
\* trail_percent) and never decreases; for a buy order it is the lowest price
\* seen plus the trail and never increases.
C39_TrailingStopRatchets == []StopFollowsBest /\ [][StopRatchets]_vars

\* a sell order with a percent trail was updated with several prices, the
\* highest of them MaxPrice, and its stop is MaxPrice less the trail
C39_Witness ==
    /\ tso.made
    /\ ~tso.is_buy
    /\ tso.trail_percent # None
    /\ Cardinality(tso.seen) >= 2
    /\ tso._stop_price = MaxPrice * (100 - tso.trail_percent)

====
